---- MODULE Spec2Model ----
(***************************************************************************)
(* The xapers document index: the Database class of xapers/database.py     *)
(* over its Xapian store.  One store on disk (the committed revision), the *)
(* handles that processes hold on it (one writable handle at most, any     *)
(* number of read-only ones), and the operations of Database on a handle.  *)
(***************************************************************************)
EXTENDS Integers, Sequences, FiniteSets, TLC

\* ------------------------------------------------------------------ bounds

\* Document ids that replace_document / delete_document are called with.
MaxDocid == 2
\* Handles (Database objects) that can be open at the same time.
MaxHandles == 2
\* Document ids written while several handles are open (SpecHandles).
MaxSharedDocid == 1
\* The greatest result limit a search is asked with.
MaxLimit == 1

Docids == 1..MaxDocid
Handles == 1..MaxHandles
SharedDocids == 1..MaxSharedDocid

\* ------------------------------------------------------ term schema registry

BOOLEAN_PREFIX ==
    [id |-> "Q", key |-> "XBIB|", source |-> "XSOURCE|", year |-> "Y", y |-> "Y"]

BOOLEAN_PREFIX_MULTI == [tag |-> "K"]

BOOLEAN_PREFIX_INTERNAL == [file |-> "P", type |-> "T"]

PROBABILISTIC_PREFIX == [title |-> "S", t |-> "S", author |-> "A", a |-> "A"]

NoPrefix == ""

\* Database._find_prefix: the first table that knows the name; None otherwise.
find_prefix(name) ==
    IF name \in DOMAIN BOOLEAN_PREFIX THEN BOOLEAN_PREFIX[name]
    ELSE IF name \in DOMAIN BOOLEAN_PREFIX_MULTI THEN BOOLEAN_PREFIX_MULTI[name]
    ELSE IF name \in DOMAIN BOOLEAN_PREFIX_INTERNAL THEN BOOLEAN_PREFIX_INTERNAL[name]
    ELSE IF name \in DOMAIN PROBABILISTIC_PREFIX THEN PROBABILISTIC_PREFIX[name]
    ELSE NoPrefix

\* The source modules that come with xapers (xapers/sources).
SourceNames == {"arxiv", "isbn"}

\* str.upper() on the names of the catalog.
Upper(s) ==
    CASE s = "arxiv" -> "ARXIV"
      [] s = "isbn" -> "ISBN"
      [] s = "doi" -> "DOI"
      [] s = "bib" -> "BIB"
      [] OTHER -> s

\* Database._make_source_prefix: 'X{}|'.format(source.upper())
make_source_prefix(source) == "X" \o Upper(source) \o "|"

\* ---------------------------------------------------------------- documents

\* A Xapian document: its boolean (prefixed) terms, the year value slot
\* (0: no value) and the terms of its free text (numbered words, each with
\* wdf 1).  AbsentDoc is the record of a docid the store holds no document for.
AbsentDoc == [present |-> FALSE, terms |-> {}, year |-> 0, text |-> {}]

\* Structured field values handed to the indexer: bibliography key, source
\* ids (source name, external id), file paths, tags, year, and the words of
\* the extracted text.
FieldInputs ==
    { [key |-> "k1", sids |-> {<<"arxiv", "1">>}, files |-> {"a.pdf"},
       tags |-> {"new"}, year |-> 2001, text |-> {1, 2}],
      [key |-> "k2", sids |-> {}, files |-> {},
       tags |-> {"todo"}, year |-> 2010, text |-> {}] }

\* The indexer: structured fields are emitted verbatim under their boolean
\* prefix; the year also fills value slot 0; the words of the text are
\* emitted unprefixed.
IndexTerms(f) ==
    {find_prefix("key") \o f.key}
    \cup {find_prefix("source") \o s[1] : s \in f.sids}
    \cup {make_source_prefix(s[1]) \o s[2] : s \in f.sids}
    \cup {find_prefix("file") \o p : p \in f.files}
    \cup {find_prefix("tag") \o t : t \in f.tags}

XapianDoc(f) ==
    [present |-> TRUE, terms |-> IndexTerms(f), year |-> f.year, text |-> f.text]

DocInputs == {XapianDoc(f) : f \in FieldInputs}

\* The document synced while several handles are open (SpecHandles).
SharedDocInputs == {XapianDoc(f) : f \in {g \in FieldInputs : g.key = "k1"}}

\* ------------------------------------------------------------ the Xapian store

\* One revision of the store: the document of every docid and the highest
\* docid ever used (Xapian's lastdocid, which deletes never lower).
EmptyStore == [docs |-> [d \in Docids |-> AbsentDoc], lastdocid |-> 0]

Max(a, b) == IF a >= b THEN a ELSE b

SetMax(S) == IF S = {} THEN 0 ELSE CHOOSE d \in S : \A e \in S : e <= d

\* xapian get_document(docid) succeeds
xapian_has_document(db, docid) == docid \in Docids /\ db.docs[docid].present

\* A merging write: the new terms are added on top of the stored ones.
xapian_replace_document_merge(db, docid, doc) ==
    [docs |-> [db.docs EXCEPT ![docid] =
                  [present |-> TRUE, terms |-> @.terms \cup doc.terms,
                   year |-> doc.year, text |-> @.text \cup doc.text]],
     lastdocid |-> Max(db.lastdocid, docid)]

\* A write that allocates: every write moves lastdocid on.
xapian_replace_document_bump(db, docid, doc) ==
    [docs |-> [db.docs EXCEPT ![docid] = doc],
     lastdocid |-> Max(db.lastdocid + 1, docid)]

\* Database.replace_document: xapian replace_document(docid, doc) stores doc
\* as the whole document of docid, creating it when absent, and raises
\* lastdocid to docid.
xapian_replace_document(db, docid, doc) ==
    [docs |-> [db.docs EXCEPT ![docid] = doc],
     lastdocid |-> Max(db.lastdocid, docid)]

\* A delete that gives the ids of deleted documents back: lastdocid falls to
\* the highest docid still present.
xapian_delete_document_rewind(db, docid) ==
    LET left == {d \in Docids \ {docid} : db.docs[d].present}
    IN  [docs |-> [db.docs EXCEPT ![docid] = AbsentDoc],
         lastdocid |-> IF left = {} THEN 0
                       ELSE CHOOSE d \in left : \A e \in left : e <= d]

\* Database.delete_document on a present docid: the document is gone,
\* lastdocid stays.
xapian_delete_document(db, docid) ==
    [db EXCEPT !.docs[docid] = AbsentDoc]

\* A generator that looks at the documents present instead of lastdocid.
generate_docid_from_present(db) ==
    LET present == {d \in Docids : db.docs[d].present}
    IN  IF present = {} THEN 1
        ELSE (CHOOSE d \in present : \A e \in present : e <= d) + 1

\* Database._generate_docid
generate_docid(db) == db.lastdocid + 1

\* The docids db holds a document for.
Present(db) == {d \in Docids : db.docs[d].present}

\* The documents of db that hold the term.
Holders(db, term) == {d \in Docids : db.docs[d].present /\ term \in db.docs[d].terms}

\* Database._doc_for_term with the emptiness test off by one: a single match
\* is taken for none.
doc_for_term_needs_two(db, term) ==
    IF Cardinality(Holders(db, term)) > 1 THEN Holders(db, term) ELSE {0}

\* Database._doc_for_term: the first match of the one-term query, None (0)
\* when nothing matches.  Which of several matches ranks first is decided by
\* the relevance weights, which are not modelled: any of them.
doc_for_term(db, term) ==
    IF Holders(db, term) # {} THEN Holders(db, term) ELSE {0}

\* Database.doc_for_path
doc_for_path_term(path) == find_prefix("file") \o path

\* Database.doc_for_source: sid is "source:oid", split at the first colon.
doc_for_source_term(sid) == make_source_prefix(sid[1]) \o sid[2]

\* Database.doc_for_bib
doc_for_bib_term(bibkey) == find_prefix("key") \o bibkey

\* ------------------------------------------------------------ query strings

\* A query string is the sequence of its blank-separated words.  A word is
\* "*", "+", field:value, field:lo..hi (a bound of 0: omitted), or a word of
\* free text (w, the number of the word).
Tok(t, field, value, lo, hi, w) ==
    [t |-> t, field |-> field, value |-> value, lo |-> lo, hi |-> hi, w |-> w]

StarTok == Tok("*", "", "", 0, 0, 0)
PlusTok == Tok("+", "", "", 0, 0, 0)
FilterTok(field, value) == Tok("filter", field, value, 0, 0, 0)
RangeTok(field, lo, hi) == Tok("range", field, "", lo, hi, 0)
WordTok(w) == Tok("word", "", "", 0, 0, w)
\* The boolean operator AND written in the query string.
AndTok == Tok("AND", "", "", 0, 0, 0)

NUMBER_VALUE_FACET == [year |-> 0, y |-> 0]

\* The fields Database.__init__ registers with the query parser: the
\* BOOLEAN_PREFIX fields and the source names as exclusive boolean prefixes,
\* the BOOLEAN_PREFIX_MULTI fields with exclusive = False.  With tag
\* registered like the other boolean prefixes:
field_info_tag_exclusive(query_parser, field) ==
    IF field \in DOMAIN BOOLEAN_PREFIX
    THEN [boolean |-> TRUE, prefix |-> BOOLEAN_PREFIX[field], exclusive |-> TRUE]
    ELSE IF field \in DOMAIN BOOLEAN_PREFIX_MULTI
    THEN [boolean |-> TRUE, prefix |-> BOOLEAN_PREFIX_MULTI[field], exclusive |-> TRUE]
    ELSE IF field \in query_parser
    THEN [boolean |-> TRUE, prefix |-> make_source_prefix(field), exclusive |-> TRUE]
    ELSE [boolean |-> FALSE, prefix |-> NoPrefix, exclusive |-> FALSE]

\* With every boolean prefix registered with exclusive = False:
field_info_none_exclusive(query_parser, field) ==
    IF field \in DOMAIN BOOLEAN_PREFIX
    THEN [boolean |-> TRUE, prefix |-> BOOLEAN_PREFIX[field], exclusive |-> FALSE]
    ELSE IF field \in DOMAIN BOOLEAN_PREFIX_MULTI
    THEN [boolean |-> TRUE, prefix |-> BOOLEAN_PREFIX_MULTI[field], exclusive |-> FALSE]
    ELSE IF field \in query_parser
    THEN [boolean |-> TRUE, prefix |-> make_source_prefix(field), exclusive |-> FALSE]
    ELSE [boolean |-> FALSE, prefix |-> NoPrefix, exclusive |-> FALSE]

\* As Database.__init__ registers them.
field_info(query_parser, field) ==
    IF field \in DOMAIN BOOLEAN_PREFIX
    THEN [boolean |-> TRUE, prefix |-> BOOLEAN_PREFIX[field], exclusive |-> TRUE]
    ELSE IF field \in DOMAIN BOOLEAN_PREFIX_MULTI
    THEN [boolean |-> TRUE, prefix |-> BOOLEAN_PREFIX_MULTI[field], exclusive |-> FALSE]
    ELSE IF field \in query_parser
    THEN [boolean |-> TRUE, prefix |-> make_source_prefix(field), exclusive |-> TRUE]
    ELSE [boolean |-> FALSE, prefix |-> NoPrefix, exclusive |-> FALSE]

\* The decimal digits of a natural number, most significant first.
RECURSIVE Digits(_)
Digits(n) == IF n < 10 THEN <<n>> ELSE Append(Digits(n \div 10), n % 10)

\* A number written as its decimal digits, the way a string range processor
\* would compare it.
sortable_serialise_decimal(n) == Digits(n)

\* xapian.sortable_serialise on a positive integer: a byte string that
\* compares like the number -- the magnitude first, then the digits.  Both
\* the value slot and the bounds of NumberValueRangeProcessor hold it.
sortable_serialise(n) == <<Len(Digits(n))>> \o Digits(n)

\* Byte strings compare lexicographically.
bytes_le(a, b) ==
    \/ /\ Len(a) <= Len(b)
       /\ \A i \in 1..Len(a) : a[i] = b[i]
    \/ \E i \in 1..Len(a) :
          /\ i <= Len(b)
          /\ a[i] < b[i]
          /\ \A j \in 1..(i - 1) : a[j] = b[j]

bytes_lt(a, b) == a # b /\ bytes_le(a, b)

\* The content of value slot 0 of a document: the serialised year, empty
\* when the document has none.
NoValue == <<>>

value_slot(doc) == IF doc.year = 0 THEN NoValue ELSE sortable_serialise(doc.year)

\* NumberValueRangeProcessor(facet, name + ':') on lo..hi: the slot and the
\* serialised bounds, an omitted bound staying empty.
value_range(tok) ==
    [slot |-> NUMBER_VALUE_FACET[tok.field],
     begin |-> IF tok.lo = 0 THEN NoValue ELSE sortable_serialise(tok.lo),
     end |-> IF tok.hi = 0 THEN NoValue ELSE sortable_serialise(tok.hi)]

\* The value range query: documents that have a value in the slot which lies
\* between the bounds, both included; an empty bound does not bound.
in_value_range(doc, r) ==
    /\ value_slot(doc) # NoValue
    /\ r.begin = NoValue \/ bytes_le(r.begin, value_slot(doc))
    /\ r.end = NoValue \/ bytes_le(value_slot(doc), r.end)

\* The query matching every document and the one matching none.
MatchAll == [all |-> TRUE, words |-> {}, groups |-> {}, ranges |-> {}]
MatchNothing == [all |-> FALSE, words |-> {}, groups |-> {}, ranges |-> {}]

\* The words of a text are numbered.  A text in which "<field>:<value>" is
\* written holds the words field and value next to each other; the phrase is
\* numbered after the words (one number for the phrases no text holds).
Phrases == << <<"doi", "7">>, <<"bib", "k1">>, <<"foo", "bar">> >>

phrase_word(field, value) ==
    IF \E i \in 1..Len(Phrases) : Phrases[i] = <<field, value>>
    THEN 10 + (CHOOSE i \in 1..Len(Phrases) : Phrases[i] = <<field, value>>)
    ELSE 10

\* query_parser.parse_query raises QueryParserError ("Syntax: <expression>
\* AND <expression>"): an AND without an expression on one of its sides.
parse_error(query_string) ==
    IF \E i \in 1..Len(query_string) :
          /\ query_string[i] = AndTok
          /\ \/ i = 1
             \/ i = Len(query_string)
             \/ query_string[i + 1] = AndTok
    THEN "QueryParserError"
    ELSE "none"

\* query_parser.parse_query with default_op AND: the words of free text are
\* all required; the boolean filters are grouped -- the filters of one
\* exclusive field form one group of alternatives, every filter of a
\* non-exclusive field is a group of its own -- and every group is required;
\* the ranges over one slot are alternatives.  field:value with a field that
\* is not registered is free text: the phrase of the two words.  "*" and "+"
\* are no words of the parser's grammar: a lone "+" is dropped and leaves the
\* empty query.
parse_query(query_parser, query_string) ==
    LET toks == {query_string[i] : i \in 1..Len(query_string)}
        filters == {k \in toks : k.t = "filter" /\ field_info(query_parser, k.field).boolean}
        unknown == {k \in toks : /\ k.t = "filter"
                                 /\ ~field_info(query_parser, k.field).boolean
                                 /\ k.field \notin DOMAIN PROBABILISTIC_PREFIX}
        term(k) == field_info(query_parser, k.field).prefix \o k.value
        exclusive == {k \in filters : field_info(query_parser, k.field).exclusive}
        multi == filters \ exclusive
    IN  [all |-> FALSE,
         words |-> {k.w : k \in {j \in toks : j.t = "word"}}
                      \cup {phrase_word(k.field, k.value) : k \in unknown},
         groups |-> {{term(k) : k \in {j \in exclusive : j.field = f}} :
                        f \in {k.field : k \in exclusive}}
                    \cup {{term(k)} : k \in multi},
         ranges |-> {value_range(k) :
                        k \in {j \in toks : j.t = "range"
                                            /\ j.field \in DOMAIN NUMBER_VALUE_FACET}}]

\* The documents of db a query matches.
Matches(db, query) ==
    {d \in Docids :
        /\ db.docs[d].present
        /\ \/ query.all
           \/ /\ query # MatchNothing
              /\ query.words \subseteq db.docs[d].text
              /\ \A g \in query.groups : g \cap db.docs[d].terms # {}
              /\ query.ranges # {} =>
                    \E r \in query.ranges : in_value_range(db.docs[d], r)}

\* xapian get_doccount()
get_doccount(db) == Cardinality({d \in Docids : db.docs[d].present})

\* The length of a document: the sum of the wdf of its terms, every term
\* being added with wdf 1.
doclength(doc) == Cardinality(doc.terms) + Cardinality(doc.text)

\* The relevance weight of a matching document.  Boolean filters, ranges and
\* MatchAll carry no weight.  The words of a query are all required, so the
\* matching documents hold the same words with the same wdf and the default
\* (BM25) weight differs by the length normalisation alone: the shorter
\* document weighs more.
weight(doc, query) == IF query.words = {} THEN 0 ELSE 100 - doclength(doc)

\* --------------------------------------------------------- ranking and sort

\* An optional number: None is the empty tuple, n is <<n>>.
None == <<>>

\* Python's truth test of a limit: None and 0 are false.
truthy(limit) == limit # None /\ limit[1] # 0

SortModes == {"relevance", "year"}

\* The sort of _search with the value order left at reverse = False.
sort_settings_forward(sort) ==
    IF sort = "relevance"
    THEN [by |-> "relevance_then_value", slot |-> NUMBER_VALUE_FACET["year"],
          reverse |-> FALSE]
    ELSE [by |-> "value_then_relevance", slot |-> NUMBER_VALUE_FACET["year"],
          reverse |-> FALSE]

\* _search: set_sort_by_relevance_then_value(year, True) for 'relevance',
\* set_sort_by_value_then_relevance(year, True) for 'year'.
sort_settings(sort) ==
    IF sort = "relevance"
    THEN [by |-> "relevance_then_value", slot |-> NUMBER_VALUE_FACET["year"],
          reverse |-> TRUE]
    ELSE [by |-> "value_then_relevance", slot |-> NUMBER_VALUE_FACET["year"],
          reverse |-> TRUE]

\* An enquire left at the docid order that promises nothing.
docid_order_dont_care == "DONT_CARE"

\* _search: enquire.set_docid_order(xapian.Enquire.DESCENDING)
docid_order == "DESCENDING"

\* The candidate of a document in the match: docid, weight, sort key.
MatchItem(db, query, d) ==
    [did |-> d, wt |-> weight(db.docs[d], query), key |-> value_slot(db.docs[d])]

\* Xapian's value order: with reverse set the greater key ranks first,
\* without it the smaller one.
value_better(reverse, a, b) ==
    IF reverse THEN bytes_lt(b.key, a.key) ELSE bytes_lt(a.key, b.key)

\* Xapian's docid order between candidates equal on the keys.
did_better(order, a, b) ==
    CASE order = "DESCENDING" -> a.did > b.did
      [] order = "ASCENDING" -> a.did < b.did
      [] OTHER -> FALSE

\* The match comparison: a ranks before b.  An enquire that was given no
\* sort ranks by relevance.
mset_cmp(settings, order, a, b) ==
    CASE settings.by = "relevance_then_value" ->
            \/ a.wt > b.wt
            \/ /\ a.wt = b.wt
               /\ \/ value_better(settings.reverse, a, b)
                  \/ a.key = b.key /\ did_better(order, a, b)
      [] settings.by = "value_then_relevance" ->
            \/ value_better(settings.reverse, a, b)
            \/ /\ a.key = b.key
               /\ \/ a.wt > b.wt
                  \/ a.wt = b.wt /\ did_better(order, a, b)
      [] OTHER ->
            \/ a.wt > b.wt
            \/ a.wt = b.wt /\ did_better(order, a, b)

\* The sequences that list every element of S once.
Perms(S) ==
    {p \in [1..Cardinality(S) -> S] : \A i, j \in 1..Cardinality(S) : p[i] = p[j] => i = j}

\* The rankings of the candidates the comparison allows: no candidate is
\* listed after one it ranks before.
Rankings(items, settings, order) ==
    {p \in Perms(items) :
        \A i, j \in 1..Len(p) : i < j => ~mset_cmp(settings, order, p[j], p[i])}

Min(a, b) == IF a <= b THEN a ELSE b

\* enquire.get_mset(0, maxitems) over a ranking: its first maxitems
\* candidates.  The estimate of the number of matches is exact when the whole
\* ranking fits; of a cut ranking Xapian only knows that it lies between
\* the items returned and the documents of the store.
get_mset(db, ranking, maxitems) ==
    LET items == SubSeq(ranking, 1, Min(maxitems, Len(ranking)))
    IN  {[items |-> items, matches_estimated |-> e] :
            e \in IF maxitems >= Len(ranking) THEN {Len(ranking)}
                  ELSE Len(items)..get_doccount(db)}

\* A _search that catches what the parser raises and searches for nothing.
search_error_caught(query_string, sort) ==
    IF sort \notin SortModes THEN "ValueError" ELSE "none"

\* Database._search: the exception it raises before it asks for the mset --
\* ValueError for an unknown sort, and what parse_query raises, which
\* nothing catches; "*" is not given to the parser.
search_error(query_string, sort) ==
    IF sort \notin SortModes THEN "ValueError"
    ELSE IF query_string = <<StarTok>> THEN "none"
    ELSE parse_error(query_string)

\* _search with the limit tested against None only: limit=0 asks for no items.
search_limit_zero_literal(self, query_string, sort, limit) ==
    LET db == self.view
        query == IF query_string = <<StarTok>> THEN MatchAll
                 ELSE parse_query(self.query_parser, query_string)
        items == {MatchItem(db, query, d) : d \in Matches(db, query)}
    IN  UNION {get_mset(db, r,
                        IF limit # None THEN limit[1] ELSE get_doccount(db)) :
                  r \in Rankings(items, sort_settings(sort), docid_order)}

\* Database._search(query_string, sort, limit): the msets it can return.
search_(self, query_string, sort, limit) ==
    LET db == self.view
        query == IF query_string = <<StarTok>> THEN MatchAll
                 ELSE parse_query(self.query_parser, query_string)
        items == {MatchItem(db, query, d) : d \in Matches(db, query)}
    IN  UNION {get_mset(db, r,
                        IF truthy(limit) THEN limit[1] ELSE get_doccount(db)) :
                  r \in Rankings(items, sort_settings(sort), docid_order)}

\* Database.search: the documents of the mset, in its order.
search(self, query_string, sort, limit) ==
    {[i \in 1..Len(m.items) |-> m.items[i].did] :
        m \in search_(self, query_string, sort, limit)}

\* Database.count: _search(query_string).get_matches_estimated()
count(self, query_string) ==
    {m.matches_estimated : m \in search_(self, query_string, "relevance", None)}

\* QueryAction of the command line: the argument words joined; '+' alone
\* becomes '*'.
QueryAction(values) == IF values = <<PlusTok>> THEN <<StarTok>> ELSE values

\* ------------------------------------------------------------ find_similar

\* find_similar: the number of terms used in the elite set
ELITE_TERM_COUNT == 42

\* A threshold that lets lower scores pass.
THRESHOLD_low == <<8, 10>>

\* find_similar: the score threshold, 0.9, as a fraction
THRESHOLD == <<9, 10>>

\* term_gen.index_text(text) and the terms of its document: the distinct
\* terms of the text.  A text is given as the set of its words.
term_list(text) == {t : t \in text}

\* The terms of db: those some document's text holds.
IndexedTerms(db) == UNION {db.docs[d].text : d \in Present(db)}

\* The subsets of S that leave n of its elements out.
RECURSIVE Drop(_, _)
Drop(S, n) == IF n = 0 THEN {S} ELSE UNION {Drop(S \ {x}, n - 1) : x \in S}

\* xapian.Query(OP_ELITE_SET, term_list, ELITE_TERM_COUNT): the query keeps
\* the ELITE_TERM_COUNT terms of the greatest maximal weight and ORs them.
\* Under CoordWeight a term the store holds weighs 1 and a term it does not
\* hold weighs 0 and matches nothing, so the terms that count are terms of
\* the store: all of them when there are ELITE_TERM_COUNT at most, otherwise
\* ELITE_TERM_COUNT of them, which ones being left to the selection.
elite_sets(db, terms, n) ==
    LET held == terms \cap IndexedTerms(db)
    IN  IF Cardinality(held) <= n THEN {held}
        ELSE Drop(held, Cardinality(held) - n)

\* CoordWeight: one point for every term of the query the document holds.
coord_weight(doc, elite) == Cardinality(elite \cap doc.text)

\* The enquire of find_similar sets no sort and no docid order: relevance,
\* then ascending docid.
find_similar_settings == [by |-> "relevance", slot |-> 0, reverse |-> FALSE]

find_similar_docid_order == "ASCENDING"

\* score > THRESHOLD, for score = weight / ELITE_TERM_COUNT
above_threshold(wt) == wt * THRESHOLD[2] > THRESHOLD[1] * ELITE_TERM_COUNT

\* The loop of find_similar over the mset: the items are yielded in order
\* up to the first one whose score does not pass the threshold.
RECURSIVE yield_while(_)
yield_while(mset) ==
    IF mset = <<>> THEN <<>>
    ELSE IF above_threshold(Head(mset).wt)
    THEN <<[did |-> Head(mset).did, score |-> <<Head(mset).wt, ELITE_TERM_COUNT>>]>>
            \o yield_while(Tail(mset))
    ELSE <<>>

\* Database.find_similar(text): the sequences of (document, score) it can
\* yield.  The OR query matches the documents that hold an elite term.
find_similar(db, text) ==
    UNION {
        LET items == {[did |-> d, wt |-> coord_weight(db.docs[d], elite), key |-> NoValue] :
                         d \in {e \in Present(db) : coord_weight(db.docs[e], elite) > 0}}
        IN  {yield_while([i \in 1..Len(r) |-> r[i]]) :
                r \in Rankings(items, find_similar_settings, find_similar_docid_order)}
        : elite \in elite_sets(db, term_list(text), ELITE_TERM_COUNT)}

\* ----------------------------------------------------------------- restore

\* A file name is the sequence of its characters' code points; Python
\* compares and sorts strings by them.
Digit(d) == <<48 + d>>

\* ".xapers"
XapersName == <<46, 120, 97, 112, 101, 114, 115>>

\* int(ddir) succeeds: the name is a run of decimal digits.
is_int(name) == name # <<>> /\ \A i \in 1..Len(name) : name[i] \in 48..57

\* int(ddir)
RECURSIVE int(_)
int(name) ==
    IF name = <<>> THEN 0
    ELSE 10 * int(SubSeq(name, 1, Len(name) - 1)) + (name[Len(name)] - 48)

\* A sort of the names by the docid they stand for (the name deciding
\* between two names of one docid).
RECURSIVE list_sort_numeric(_)
list_sort_numeric(names) ==
    IF names = {} THEN <<>>
    ELSE LET first == CHOOSE x \in names : \A y \in names :
                         \/ int(x) < int(y)
                         \/ int(x) = int(y) /\ bytes_le(x, y)
         IN  <<first>> \o list_sort_numeric(names \ {first})

\* docdirs.sort(): the names in ascending string order.
RECURSIVE list_sort(_)
list_sort(names) ==
    IF names = {} THEN <<>>
    ELSE LET first == CHOOSE x \in names : \A y \in names : bytes_le(x, y)
         IN  <<first>> \o list_sort(names \ {first})

\* What a directory entry of the root is: nothing, a plain file, a directory
\* without files, or a document directory whose files give the fields.
NoFields == [key |-> "", sids |-> {}, files |-> {}, tags |-> {}, year |-> 0, text |-> {}]

NoEntry == [kind |-> "absent", fields |-> NoFields]

\* The files of a document directory added to a document: bibtex, tags and
\* the other files add their terms to the ones the document has.
add_artifacts(doc, f) ==
    [present |-> TRUE,
     terms |-> doc.terms \cup IndexTerms(f),
     year |-> IF f.year # 0 THEN f.year ELSE doc.year,
     text |-> doc.text \cup f.text]

\* A loop that syncs the document of a failing directory as far as it
\* got (a new, empty record over the stored one) before the exception leaves.
RECURSIVE restore_loop_sync_failed(_, _, _)
restore_loop_sync_failed(db, docdirs, entries) ==
    IF docdirs = <<>> THEN [db |-> db, log |-> <<>>, failed |-> <<>>, err |-> "none"]
    ELSE LET ddir == Head(docdirs)
             entry == entries[ddir]
         IN  IF entry.kind \notin {"docdir", "faildir"} \/ ~is_int(ddir)
             THEN restore_loop_sync_failed(db, Tail(docdirs), entries)
             ELSE IF entry.kind = "faildir"
             THEN [db |-> xapian_replace_document(
                              db, int(ddir), [AbsentDoc EXCEPT !.present = TRUE]),
                   log |-> <<>>, failed |-> ddir, err |-> "ParseError"]
             ELSE LET docid == int(ddir)
                      doc == IF xapian_has_document(db, docid) THEN db.docs[docid]
                             ELSE [AbsentDoc EXCEPT !.present = TRUE]
                      synced == xapian_replace_document(
                                    db, docid, add_artifacts(doc, entry.fields))
                      rest == restore_loop_sync_failed(synced, Tail(docdirs), entries)
                  IN  [rest EXCEPT !.log = <<ddir>> \o @]

\* The loop of Database.restore over the sorted names: what is no directory,
\* has no integer name or holds no file is skipped; for the others the
\* document of the docid -- the stored one, or a new one -- is given the
\* files of the directory and synced.  A directory with a file that
\* parse_file rejects ("faildir") raises out of the loop before its sync:
\* nothing catches the exception, the names after it are not looked at.
\* db is the store after the loop, log the names whose document was synced,
\* in the order of the syncs, failed the name that raised (or no name) and
\* err the exception.
RECURSIVE restore_loop(_, _, _)
restore_loop(db, docdirs, entries) ==
    IF docdirs = <<>> THEN [db |-> db, log |-> <<>>, failed |-> <<>>, err |-> "none"]
    ELSE LET ddir == Head(docdirs)
             entry == entries[ddir]
         IN  IF entry.kind \notin {"docdir", "faildir"} \/ ~is_int(ddir)
             THEN restore_loop(db, Tail(docdirs), entries)
             ELSE IF entry.kind = "faildir"
             THEN [db |-> db, log |-> <<>>, failed |-> ddir, err |-> "ParseError"]
             ELSE LET docid == int(ddir)
                      doc == IF xapian_has_document(db, docid) THEN db.docs[docid]
                             ELSE [AbsentDoc EXCEPT !.present = TRUE]
                      synced == xapian_replace_document(
                                    db, docid, add_artifacts(doc, entry.fields))
                      rest == restore_loop(synced, Tail(docdirs), entries)
                  IN  [rest EXCEPT !.log = <<ddir>> \o @]

\* os.listdir(self.root): the entries of the root, .xapers among them.
listdir(f) ==
    {n \in DOMAIN f.entries : f.entries[n].kind # "absent"}
        \cup (IF f.xapers THEN {XapersName} ELSE {})

\* os.path.isdir and os.listdir of an entry; .xapers is a directory that
\* holds the store.
dir_entries(f) ==
    [n \in listdir(f) |->
        IF n = XapersName THEN [kind |-> "docdir", fields |-> NoFields]
        ELSE f.entries[n]]

\* Database.restore
restore(db, f) == restore_loop(db, list_sort(listdir(f)), dir_entries(f))

\* ------------------------------------------------------------------- state

VARIABLES
    fs,         \* the files: root exists, holds other entries, .xapers, .xapers/xapian; source modules
    disk,       \* the committed revision of the Xapian store
    handles,    \* the Database objects: open, writable, the revision they see
    ret,        \* the last call: operation, arguments, result, exception
    generated,  \* the ids _generate_docid has returned
    persisted   \* the docids replace_document was ever called with

vars == <<fs, disk, handles, ret, generated, persisted>>

\* query_parser: the source names registered with the handle's query parser.
ClosedHandle ==
    [open |-> FALSE, writable |-> FALSE, view |-> EmptyStore, query_parser |-> {}]

OpenHandles == {h \in Handles : handles[h].open}
Writers(hs) == {h \in Handles : hs[h].open /\ hs[h].writable}
Readers == {h \in OpenHandles : ~handles[h].writable}

\* The revision a handle reads and writes.
View(h) == handles[h].view

SetView(h, db) == [handles EXCEPT ![h].view = db]

NoMode == <<>>

\* The operations whose repetition is recorded.
Repeatable == {"_generate_docid", "replace_document", "delete_document", "restore"}

\* The record of a call; rep says that the call before it was the same call
\* (for the operations that change or allocate).
Ret(op, h, docid, doc, term, mode, val, err) ==
    [op |-> op, h |-> h, docid |-> docid, doc |-> doc, term |-> term, mode |-> mode,
     val |-> val, err |-> err,
     rep |-> /\ op \in Repeatable
             /\ ret.op = op /\ ret.h = h /\ ret.docid = docid /\ ret.doc = doc]

Init ==
    /\ fs \in {[root |-> r, others |-> o, xapers |-> FALSE, xapian |-> FALSE,
               sources |-> SourceNames] :
                 r \in BOOLEAN, o \in BOOLEAN} 
    /\ fs.others => fs.root
    /\ disk = EmptyStore
    /\ handles = [h \in Handles |-> ClosedHandle]
    /\ ret = [op |-> "start", h |-> 0, docid |-> 0, doc |-> AbsentDoc, term |-> "",
              mode |-> NoMode, val |-> 0, err |-> "none", rep |-> FALSE]
    /\ generated = {}
    /\ persisted = {}

\* ------------------------------------------------------------- open / close

\* The directory step with the two error classes exchanged.
init_dir_swapped(f, create, force) ==
    IF ~f.xapers
    THEN IF create
         THEN IF f.root /\ f.others /\ ~force
              THEN "DatabaseInitializationError"
              ELSE "makedirs"
         ELSE IF f.root
              THEN "DatabaseUninitializedError"
              ELSE "DatabaseInitializationError"
    ELSE "exists"

\* Database.__init__, the directory initialization: what the constructor does
\* about root/.xapers before it opens Xapian.
init_dir(f, create, force) ==
    IF ~f.xapers
    THEN IF create
         THEN IF f.root /\ f.others /\ ~force
              THEN "DatabaseInitializationError"
              ELSE "makedirs"
         ELSE IF f.root
              THEN "DatabaseInitializationError"
              ELSE "DatabaseUninitializedError"
    ELSE "exists"

InitErrors == {"DatabaseInitializationError", "DatabaseUninitializedError"}

\* A catalog of the modules that come with xapers only.
Sources_shipped(f) == SourceNames

\* Sources(): the source modules found on the source path when it is called.
Sources(f) == f.sources

\* os.makedirs(xapers_path)
makedirs(f) == [f EXCEPT !.root = TRUE, !.xapers = TRUE]

\* A store without a write lock.
xapian_locked_never(hs) == FALSE

\* xapian.WritableDatabase raises DatabaseLockError: another writable handle
\* holds the store's lock.
xapian_locked(hs) == Writers(hs) # {}

\* The argument combinations the callers of Database() use:
\* <<writable, create, force>>.
OpenModes ==
    { <<FALSE, FALSE, FALSE>>,   \* initdb()
      <<TRUE, FALSE, FALSE>>,    \* initdb(writable=True)
      <<TRUE, TRUE, FALSE>>,     \* initdb(writable=True, create=True)
      <<TRUE, TRUE, TRUE>> }     \* initdb(writable=True, create=True, force=True)

FreeSlots == Handles \ OpenHandles

\* The slot of the next Database object; 0 when MaxHandles are open.
NextSlot == IF FreeSlots = {} THEN 0
            ELSE CHOOSE h \in FreeSlots : \A g \in FreeSlots : h <= g

\* Database.__init__(root, writable, create, force)
DatabaseInit(op, writable, create, force) ==
    LET dir == init_dir(fs, create, force)
        mode == <<writable, create, force>>
        fs1 == IF dir = "makedirs" THEN makedirs(fs) ELSE fs
        fail(e) == /\ ret' = Ret(op, 0, 0, AbsentDoc, "", mode, 0, e)
                   /\ UNCHANGED handles
        open(h) == /\ h # 0
                   /\ handles' = [handles EXCEPT ![h] =
                          [open |-> TRUE, writable |-> writable, view |-> disk,
                           query_parser |-> Sources(fs1)]]
                   /\ ret' = Ret(op, h, 0, AbsentDoc, "", mode, 0, "none")
    IN  /\ IF dir \in InitErrors
           THEN fail(dir) /\ fs' = fs
           ELSE IF writable
           THEN IF xapian_locked(handles)
                THEN fail("DatabaseLockError") /\ fs' = fs1
                ELSE open(NextSlot) /\ fs' = [fs1 EXCEPT !.xapian = TRUE]
           ELSE IF ~fs1.xapian
                THEN fail("DatabaseOpeningError") /\ fs' = fs1
                ELSE open(NextSlot) /\ fs' = fs1
        /\ UNCHANGED <<disk, generated, persisted>>

\* initdb(writable, create, force) of the command line
Open(mode) == DatabaseInit("Database", mode[1], mode[2], mode[3])

\* UI.write_db: the UI holds a read-only handle and opens a writable one.
WriteDb ==
    /\ Readers # {}
    /\ DatabaseInit("write_db", TRUE, FALSE, FALSE)

\* xapian close() of a handle: a writable handle commits its pending
\* changes as the new revision; a read-only handle leaves the store alone.
xapian_close(committed, handle) ==
    IF handle.writable THEN handle.view ELSE committed

\* Database.__exit__: xapian close().  Closing a writable handle commits and
\* releases the lock; the read-only handles keep the revision they opened.
Close(h) ==
    /\ handles[h].open
    /\ disk' = xapian_close(disk, handles[h])
    /\ handles' = [handles EXCEPT ![h] = ClosedHandle]
    /\ ret' = Ret("close", h, 0, AbsentDoc, "", NoMode, 0, "none")
    /\ UNCHANGED <<fs, generated, persisted>>

\* A reopen that keeps the revision the handle has.
xapian_reopen_noop(view, committed) == view

\* xapian reopen(): the handle moves to the latest committed revision.
xapian_reopen(view, committed) == committed

\* Database.reopen; on a writable handle Xapian has nothing to do.
Reopen(h) ==
    /\ handles[h].open
    /\ handles' = IF handles[h].writable THEN handles
                   ELSE SetView(h, xapian_reopen(View(h), disk))
    /\ ret' = Ret("reopen", h, 0, AbsentDoc, "", NoMode, 0, "none")
    /\ UNCHANGED <<fs, disk, generated, persisted>>

\* ------------------------------------------------------ document lifecycle

\* Document(db): the constructor takes its docid from db._generate_docid().
\* Documents are created on the writable handle of cmd_add and cmd_import.
GenerateDocid(h) ==
    /\ h \in Writers(handles)
    /\ generated' = generated \cup {generate_docid(View(h))}
    /\ ret' = Ret("_generate_docid", h, 0, AbsentDoc, "", NoMode,
                  generate_docid(View(h)), "none")
    /\ UNCHANGED <<fs, disk, handles, persisted>>

\* Database.replace_document(docid, doc).  The change is part of the writable
\* handle's pending revision until the handle is closed.
ReplaceDocument(h, docid, doc) ==
    /\ h \in Writers(handles)
    /\ handles' = SetView(h, xapian_replace_document(View(h), docid, doc))
    /\ persisted' = persisted \cup {docid}
    /\ ret' = Ret("replace_document", h, docid, doc, "", NoMode, 0, "none")
    /\ UNCHANGED <<fs, disk, generated>>

\* Database.delete_document(docid): xapian delete_document raises
\* DocNotFoundError for a docid that has no document, and nothing catches it.
DeleteDocument(h, docid) ==
    /\ h \in Writers(handles)
    /\ IF xapian_has_document(View(h), docid)
       THEN /\ handles' = SetView(h, xapian_delete_document(View(h), docid))
            /\ ret' = Ret("delete_document", h, docid, AbsentDoc, "", NoMode, 0, "none")
       ELSE /\ ret' = Ret("delete_document", h, docid, AbsentDoc, "", NoMode, 0,
                          "DocNotFoundError")
            /\ UNCHANGED handles
    /\ UNCHANGED <<fs, disk, generated, persisted>>

\* A read through a read-only handle whose revision is no longer the
\* committed one can fail with DatabaseModifiedError instead of answering
\* from its revision.
ReadErrors(h) ==
    IF ~handles[h].writable /\ View(h) # disk
    THEN {"none", "DatabaseModifiedError"}
    ELSE {"none"}

\* Database.__contains__(docid)
Contains(h, docid) ==
    /\ handles[h].open
    /\ \E e \in ReadErrors(h) :
          ret' = Ret("__contains__", h, docid, AbsentDoc, "", NoMode,
                     IF e = "none" THEN xapian_has_document(View(h), docid) ELSE FALSE, e)
    /\ UNCHANGED <<fs, disk, handles, generated, persisted>>

\* The lookups by unique term: op is the method, term the term it builds.
DocForTerm(h, op, term) ==
    /\ handles[h].open
    /\ \E e \in ReadErrors(h) :
          \E r \in (IF e = "none" THEN doc_for_term(View(h), term) ELSE {0}) :
             ret' = Ret(op, h, 0, AbsentDoc, term, NoMode, r, e)
    /\ UNCHANGED <<fs, disk, handles, generated, persisted>>

\* The values the lookups are called with.
BibKeys == {"k1", "k3"}
Sids == {<<"arxiv", "1">>}
Paths == {"a.pdf"}

DocForBib(h) == \E k \in BibKeys : DocForTerm(h, "doc_for_bib", doc_for_bib_term(k))

DocForSource(h) == \E s \in Sids : DocForTerm(h, "doc_for_source", doc_for_source_term(s))

DocForPath(h) == \E p \in Paths : DocForTerm(h, "doc_for_path", doc_for_path_term(p))

\* ------------------------------------------------------------------ search

\* Database.search(query_string, sort, limit) on an open handle.
Search(h, query_string, sort, limit) ==
    /\ handles[h].open
    /\ IF search_error(query_string, sort) # "none"
       THEN ret' = Ret("search", h, 0, AbsentDoc, query_string, <<sort, limit>>, <<>>,
                       search_error(query_string, sort))
       ELSE \E r \in search(handles[h], query_string, sort, limit) :
               ret' = Ret("search", h, 0, AbsentDoc, query_string, <<sort, limit>>, r, "none")
    /\ UNCHANGED <<fs, disk, handles, generated, persisted>>

\* Database.count(query_string) on an open handle.
Count(h, query_string) ==
    /\ handles[h].open
    /\ IF search_error(query_string, "relevance") # "none"
       THEN ret' = Ret("count", h, 0, AbsentDoc, query_string, NoMode, 0,
                       search_error(query_string, "relevance"))
       ELSE \E n \in count(handles[h], query_string) :
               ret' = Ret("count", h, 0, AbsentDoc, query_string, NoMode, n, "none")
    /\ UNCHANGED <<fs, disk, handles, generated, persisted>>

\* cmd_search of the command line: the query argument goes through
\* QueryAction, then Database.search(args.query, sort, limit).  The record
\* keeps the words the user gave.
CmdSearch(h, values, sort, limit) ==
    /\ handles[h].open
    /\ IF search_error(QueryAction(values), sort) # "none"
       THEN ret' = Ret("cmd_search", h, 0, AbsentDoc, values, <<sort, <<limit>>>>, <<>>,
                       search_error(QueryAction(values), sort))
       ELSE \E r \in search(handles[h], QueryAction(values), sort, <<limit>>) :
               ret' = Ret("cmd_search", h, 0, AbsentDoc, values, <<sort, <<limit>>>>, r, "none")
    /\ UNCHANGED <<fs, disk, handles, generated, persisted>>

\* Database.find_similar(text) on an open handle, the generator run to its end.
FindSimilar(h, text) ==
    /\ handles[h].open
    /\ \E r \in find_similar(View(h), text) :
          ret' = Ret("find_similar", h, 0, AbsentDoc, text, NoMode, r, "none")
    /\ UNCHANGED <<fs, disk, handles, generated, persisted>>

\* Database.restore() on the writable handle of cmd_restore; an exception
\* of the loop reaches the caller with the syncs made before it in the
\* handle.  The call records the names synced (val), the docid of the
\* directory that raised (docid, 0 for none) and the exception.
Restore(h) ==
    /\ h \in Writers(handles)
    /\ LET r == restore(View(h), fs)
       IN  /\ handles' = SetView(h, r.db)
           /\ persisted' = persisted \cup {int(r.log[i]) : i \in 1..Len(r.log)}
           /\ ret' = Ret("restore", h, int(r.failed), AbsentDoc, "", NoMode, r.log, r.err)
    /\ UNCHANGED <<fs, disk, generated>>

\* Document.get_sids() is not empty: the document holds a source term.
has_sids(doc) == \E t \in doc.terms : \E n \in SourceNames : t = find_prefix("source") \o n

\* cmd_add after initdb(writable=True, create=True), on the handle it
\* opened.  args: query (None or <<query string>>), file (None or <<the words
\* of the file's text>>), source (None or <<sid>>, the bibtex being fetched
\* from the source), bibtex (the fields of the entry, and whether add_bibtex
\* takes it), tags, interactive (--prompt) and response (the answer to
\* "continue?").
\*   doc: the single document the query matches (the command aborts when it
\*   matches none or several), or a new Document, whose docid is
\*   _generate_docid().  With a file, the documents find_similar yields are
\*   printed by a loop "for doc, score in similar", which binds doc to each
\*   of them; without --prompt or with another answer than yes the command
\*   aborts.  It aborts when a document of the source id exists and when the
\*   bibtex is not taken.  Then the bibtex, the source id (when doc has
\*   none), the file and the tags are added to doc and doc is synced.
\* The outcomes: err, the docid selected at the start (0 when none was),
\* the docid synced and the store.
cmd_add(self, args) ==
    LET db == self.view
        abort(e, sel) == [err |-> e, selected |-> sel, docid |-> 0, db |-> db]
        selections ==
            IF args.query = None THEN {generate_docid(db)}
            ELSE IF count(self, args.query[1]) # {1} THEN {0}
            ELSE {r[1] : r \in search(self, args.query[1], "relevance", None)}
        similars == IF args.file = None THEN {<<>>} ELSE find_similar(db, args.file[1])
        add(sel, similar) ==
            LET docid == IF similar # <<>> THEN similar[Len(similar)].did ELSE sel
                doc0 == IF xapian_has_document(db, docid) THEN db.docs[docid]
                        ELSE [AbsentDoc EXCEPT !.present = TRUE]
                doc1 == IF args.source = None THEN doc0
                        ELSE add_artifacts(doc0, [args.bibtex.fields EXCEPT !.sids = {}])
                doc2 == IF args.source # None /\ ~has_sids(doc1)
                        THEN add_artifacts(doc1, [NoFields EXCEPT !.key = args.bibtex.fields.key,
                                                                  !.sids = {args.source[1]}])
                        ELSE doc1
                doc3 == IF args.file = None THEN doc2
                        ELSE [doc2 EXCEPT !.terms = @ \cup {find_prefix("file") \o "b.pdf"},
                                          !.text = @ \cup args.file[1]]
                doc4 == [doc3 EXCEPT !.terms = @ \cup {find_prefix("tag") \o t : t \in args.tags}]
            IN  [err |-> "none", selected |-> sel, docid |-> docid,
                 db |-> xapian_replace_document(db, docid, doc4)]
    IN  UNION {
          IF sel = 0 THEN {abort("Aborting.", 0)}
          ELSE {IF similar # <<>> /\ ~(args.interactive /\ args.response \in {"y", "yes"})
                THEN abort("Aborting.", sel)
                ELSE IF /\ args.source # None
                        /\ doc_for_term(db, doc_for_source_term(args.source[1])) # {0}
                THEN abort("Aborting.", sel)
                ELSE IF args.source # None /\ ~args.bibtex.ok
                THEN abort("BibtexError", sel)
                ELSE add(sel, similar) : similar \in similars}
          : sel \in selections}

\* cmd_add as a step of the handle; the command needs a source or a file.
CmdAdd(h, args) ==
    /\ h \in Writers(handles)
    /\ args.source # None \/ args.file # None
    /\ args.query = None => generate_docid(View(h)) \in Docids
    /\ \E r \in cmd_add(handles[h], args) :
          /\ handles' = SetView(h, r.db)
          /\ generated' = IF args.query = None THEN generated \cup {r.selected}
                          ELSE generated
          /\ persisted' = IF r.err = "none" THEN persisted \cup {r.docid} ELSE persisted
          /\ ret' = Ret("cmd_add", h, r.docid,
                        IF r.err = "none" THEN r.db.docs[r.docid] ELSE AbsentDoc,
                        "", <<args.interactive, args.response>>, r.selected, r.err)
    /\ UNCHANGED <<fs, disk>>

\* The order of the bibliography keys: sorted(..., key=lambda entry:
\* entry.key) compares the key strings.
ImportKeys == <<"k1", "k2", "k3">>

key_rank(key) == CHOOSE i \in DOMAIN ImportKeys : ImportKeys[i] = key

\* sorted(Bibtex(args.bibfile), key=...): the entries of the file by key.
RECURSIVE sorted_by_key(_)
sorted_by_key(entries) ==
    IF entries = {} THEN <<>>
    ELSE LET first == CHOOSE e \in entries :
                          \A o \in entries : key_rank(e.fields.key) <= key_rank(o.fields.key)
         IN  <<first>> \o sorted_by_key(entries \ {first})

\* Sources.scan_bibentry: the source ids of the entry whose source is in
\* the catalog.
scan_bibentry(sources, entry) == {s \in entry.fields.sids : s[1] \in sources}

\* The loop of cmd_import over the sorted entries.  docs: the document of
\* the entry's key, then the documents of its source ids not in the list
\* yet; doc is docs[0], or a new Document (docid _generate_docid()) when the
\* list is empty.  The entry, its file and the tags are added to doc and doc
\* is synced.  A BibtexError (entry.ok false) is caught: the key goes to
\* errors and the loop goes on.  args.tags is None without --tags, and
\* None.split raises an AttributeError nothing catches.  An outcome: the
\* store, the keys synced, errors and the exception that left the loop;
\* full: a docid above the last one of the model would have been needed.
RECURSIVE import_loop(_, _, _, _)
import_loop(db, sources, entries, tags) ==
    IF entries = <<>>
    THEN {[db |-> db, imported |-> <<>>, errors |-> <<>>, err |-> "none", full |-> FALSE]}
    ELSE LET entry == Head(entries)
             key == entry.fields.key
             bdocs == doc_for_term(db, doc_for_bib_term(key))
             sdocs == UNION {doc_for_term(db, doc_for_source_term(s))
                                : s \in scan_bibentry(sources, entry)} \ {0}
             firsts(bdoc) == IF bdoc # 0 THEN {bdoc}
                             ELSE IF sdocs # {} THEN sdocs
                             ELSE {generate_docid(db)}
             step(docid) ==
                 IF docid \notin Docids
                 THEN {[db |-> db, imported |-> <<>>, errors |-> <<>>,
                        err |-> "none", full |-> TRUE]}
                 ELSE IF ~entry.ok
                 THEN {[r EXCEPT !.errors = <<key>> \o @]
                          : r \in import_loop(db, sources, Tail(entries), tags)}
                 ELSE IF tags = None
                 THEN {[db |-> db, imported |-> <<>>, errors |-> <<>>,
                        err |-> "AttributeError", full |-> FALSE]}
                 ELSE LET doc == IF xapian_has_document(db, docid) THEN db.docs[docid]
                                 ELSE [AbsentDoc EXCEPT !.present = TRUE]
                          synced == xapian_replace_document(
                                        db, docid,
                                        add_artifacts(doc, [entry.fields EXCEPT !.tags = tags[1]]))
                      IN  {[r EXCEPT !.imported = <<key>> \o @]
                              : r \in import_loop(synced, sources, Tail(entries), tags)}
         IN  UNION {step(docid) : docid \in UNION {firsts(bdoc) : bdoc \in bdocs}}

\* cmd_import after initdb(writable=True, create=True), with the catalog
\* Sources() of the moment.
cmd_import(self, f, bibfile, tags) ==
    import_loop(self.view, Sources(f), sorted_by_key(bibfile), tags)

\* cmd_import as a step of the handle; it exits with status 1 when errors
\* is not empty.
CmdImport(h, bibfile, tags) ==
    /\ h \in Writers(handles)
    /\ \A r \in cmd_import(handles[h], fs, bibfile, tags) : ~r.full
    /\ \E r \in cmd_import(handles[h], fs, bibfile, tags) :
          /\ handles' = SetView(h, r.db)
          /\ persisted' = persisted \cup {d \in Docids : r.db.docs[d] # View(h).docs[d]}
          /\ ret' = Ret("cmd_import", h, 0, AbsentDoc, "", tags,
                        [file |-> sorted_by_key(bibfile), imported |-> r.imported,
                         errors |-> r.errors, before |-> View(h)],
                        IF r.err # "none" THEN r.err
                        ELSE IF r.errors # <<>> THEN "exit 1" ELSE "none")
    /\ UNCHANGED <<fs, disk, generated>>

\* ------------------------------------------------------------ key bindings

\* The statements of a configuration: bind CONTEXT key rhs, where rhs is
\* "<" key ">" (Key) or the name of a command (Action), and unbind CONTEXT
\* key.
BindStmt(context, key, rhs) == [kind |-> "bind", context |-> context, key |-> key, rhs |-> rhs]

UnbindStmt(context, key) ==
    [kind |-> "unbind", context |-> context, key |-> key, rhs |-> [kind |-> "none", name |-> ""]]

KeyRhs(key) == [kind |-> "Key", name |-> key]

ActionRhs(action) == [kind |-> "Action", name |-> action]

\* dict assignment and dict.pop on a table.
dict_set(table, k, v) == [x \in DOMAIN table \cup {k} |-> IF x = k THEN v ELSE table[x]]

dict_pop(table, k) == [x \in DOMAIN table \ {k} |-> table[x]]

\* ConfigTransformer.config: the statements in their order; a bind makes
\* the table of its context and sets the key, an unbind pops the key, the
\* KeyError of an unknown context or key is passed over.
RECURSIVE config(_, _)
config(binds, children) ==
    IF children = <<>> THEN binds
    ELSE LET c == Head(children)
             table == IF c.context \in DOMAIN binds THEN binds[c.context] ELSE <<>>
         IN  IF c.kind = "bind"
             THEN config(dict_set(binds, c.context, dict_set(table, c.key, c.rhs)),
                         Tail(children))
             ELSE IF c.context \in DOMAIN binds
             THEN config(dict_set(binds, c.context, dict_pop(table, c.key)), Tail(children))
             ELSE config(binds, Tail(children))

\* The commands of the widget class (ui_methods).
UiMethods == {"quit"}

\* Interactable.keypress of a widget of the class context, whose base class
\* handles the keys of handled (it returns None for them) and passes the
\* others through.  A key bound to a command calls the command, or is
\* returned when the class has no such command; a key bound to a key is
\* dispatched again by a recursive call; an unbound key is returned.  seen:
\* the keys of the calls below this one.  Nothing changes between the
\* calls, so a key dispatched a second time is dispatched without end: the
\* recursion goes on until the interpreter ends it with a RecursionError.
\* The outcome: the value returned, the number of re-dispatches made before
\* it, and the exception.
RECURSIVE keypress(_, _, _, _, _)
keypress(binds, context, handled, key, seen) ==
    IF key \in handled
    THEN [result |-> "None", dispatches |-> Cardinality(seen), err |-> "none"]
    ELSE IF context \notin DOMAIN binds
    THEN [result |-> "", dispatches |-> Cardinality(seen), err |-> "KeyError"]
    ELSE LET keys == binds[context]
         IN  IF key \notin DOMAIN keys
             THEN [result |-> key, dispatches |-> Cardinality(seen), err |-> "none"]
             ELSE IF keys[key].kind = "Action"
             THEN [result |-> IF keys[key].name \in UiMethods THEN "None" ELSE key,
                   dispatches |-> Cardinality(seen), err |-> "none"]
             ELSE IF keys[key].name \in seen \cup {key}
             THEN [result |-> "", dispatches |-> Cardinality(seen) + 1,
                   err |-> "RecursionError"]
             ELSE keypress(binds, context, handled, keys[key].name, seen \cup {key})

\* A key pressed on a widget of the class Search, under the bindings of the
\* configuration files.
Keypress(key, handled) ==
    /\ LET r == keypress(config(<<>>, fs.config), "search", handled, key, {})
       IN  ret' = Ret("keypress", 0, 0, AbsentDoc, key, handled,
                      [result |-> r.result, dispatches |-> r.dispatches], r.err)
    /\ UNCHANGED <<fs, disk, handles, generated, persisted>>

\* ------------------------------------------------------------ specification

\* The command line adding and removing documents: one writable handle at a
\* time (cmd_add, cmd_import, cmd_delete), documents created, synced, deleted.
WriterMode == <<TRUE, TRUE, FALSE>>

Next ==
    \/ Open(WriterMode)
    \/ \E h \in Handles : Close(h)
    \/ \E h \in Handles : GenerateDocid(h)
    \/ \E h \in Handles, d \in Docids, doc \in DocInputs : ReplaceDocument(h, d, doc)
    \/ \E h \in Handles, d \in Docids : DeleteDocument(h, d)
    \/ \E h \in Handles, d \in Docids : Contains(h, d)
    \/ \E h \in Handles : DocForBib(h)
    \/ \E h \in Handles : DocForSource(h)
    \/ \E h \in Handles : DocForPath(h)

Spec == Init /\ [][Next]_vars

\* Writable and read-only handles of several processes on the one store.
NextHandles ==
    \/ \E m \in OpenModes : Open(m)
    \/ WriteDb
    \/ \E h \in Handles : Close(h)
    \/ \E h \in Handles : Reopen(h)
    \/ \E h \in Handles, d \in SharedDocids, doc \in SharedDocInputs :
          ReplaceDocument(h, d, doc)
    \/ \E h \in Handles, d \in SharedDocids : DeleteDocument(h, d)
    \/ \E h \in Handles, d \in SharedDocids : Contains(h, d)

SpecHandles == Init /\ [][NextHandles]_vars

\* The documents of the stores that are searched: tags, sources, years on
\* both sides of the range bounds, a document without a year, texts of
\* different lengths.
QueryFieldInputs ==
    { [key |-> "k1", sids |-> {<<"arxiv", "1">>}, files |-> {}, tags |-> {"a", "b"},
       year |-> 2001, text |-> {1, 2}],
      [key |-> "k2", sids |-> {<<"isbn", "2">>}, files |-> {}, tags |-> {"a"},
       year |-> 2010, text |-> {1}],
      [key |-> "k3", sids |-> {}, files |-> {}, tags |-> {},
       year |-> 1999, text |-> {1}],
      [key |-> "k4", sids |-> {}, files |-> {}, tags |-> {"b"},
       year |-> 1999, text |-> {1, 2}],
      [key |-> "k5", sids |-> {}, files |-> {}, tags |-> {},
       year |-> 2005, text |-> {}],
      [key |-> "k6", sids |-> {}, files |-> {}, tags |-> {},
       year |-> 2011, text |-> {}],
      [key |-> "k7", sids |-> {}, files |-> {}, tags |-> {"a", "c"},
       year |-> 0, text |-> {1}],
      [key |-> "k8", sids |-> {}, files |-> {}, tags |-> {},
       year |-> 999, text |-> {2}] }

\* The documents of the store whose filters are queried (SpecQuery).
FilterDocInputs ==
    {XapianDoc(f) : f \in {g \in QueryFieldInputs : g.key \in {"k1", "k2", "k3", "k7", "k8"}}}

\* The documents of the store whose ranges and order are queried (SpecSort).
SortDocInputs == {XapianDoc(f) : f \in QueryFieldInputs}

\* The queries asked.
TagQueries ==
    { <<FilterTok("tag", "a")>>,
      <<FilterTok("tag", "a"), FilterTok("tag", "b")>>,
      <<FilterTok("tag", "a"), FilterTok("tag", "c")>> }

ExclusiveQueries ==
    { <<FilterTok("source", "arxiv"), FilterTok("source", "isbn")>>,
      <<FilterTok("key", "k1"), FilterTok("key", "k3")>>,
      <<FilterTok("arxiv", "1"), FilterTok("isbn", "2")>>,
      <<FilterTok("key", "k1"), FilterTok("source", "isbn")>>,
      <<WordTok(2), FilterTok("key", "k1"), FilterTok("key", "k8")>> }

RangeQueries ==
    { <<RangeTok("year", 2000, 2010)>>,
      <<RangeTok("year", 0, 2000)>>,
      <<RangeTok("y", 2010, 0)>> }

AllQueries == { <<StarTok>>, <<PlusTok>> }

FilterQueries == TagQueries \cup ExclusiveQueries \cup AllQueries \cup { <<WordTok(1)>> }

SortQueries ==
    RangeQueries \cup { <<StarTok>>, <<WordTok(1)>>, <<FilterTok("tag", "a")>> }

Limits == {None} \cup {<<n>> : n \in 0..MaxLimit}

\* A store that documents were added to, and a read-only handle on it, as
\* initdb() opens it for cmd_search and cmd_count.
StoreOf(docs) ==
    [docs |-> docs, lastdocid |-> SetMax({d \in Docids : docs[d].present})]

InitStore(inputs) ==
    /\ fs = [root |-> TRUE, others |-> TRUE, xapers |-> TRUE, xapian |-> TRUE,
            sources |-> SourceNames]
    /\ \E docs \in [Docids -> inputs \cup {AbsentDoc}] : disk = StoreOf(docs)
    /\ handles = [h \in Handles |->
                     IF h = 1 THEN [open |-> TRUE, writable |-> FALSE, view |-> disk,
                                   query_parser |-> Sources(fs)]
                     ELSE ClosedHandle]
    /\ ret = [op |-> "start", h |-> 0, docid |-> 0, doc |-> AbsentDoc, term |-> "",
              mode |-> NoMode, val |-> 0, err |-> "none", rep |-> FALSE]
    /\ generated = {}
    /\ persisted = {d \in Docids : disk.docs[d].present}

\* Filters, match-all and counts: searches by relevance under every limit.
InitQuery == InitStore(FilterDocInputs)

NextQuery ==
    \/ \E h \in Handles, q \in FilterQueries, limit \in Limits :
          Search(h, q, "relevance", limit)
    \/ \E h \in Handles, q \in FilterQueries : Count(h, q)
    \/ \E h \in Handles, q \in AllQueries \cup TagQueries : CmdSearch(h, q, "relevance", 0)

SpecQuery == InitQuery /\ [][NextQuery]_vars

\* Year ranges and the order of the results: unlimited searches in both
\* sort modes.
InitSort == InitStore(SortDocInputs)

NextSort ==
    \E h \in Handles, q \in SortQueries, sort \in SortModes : Search(h, q, sort, None)

SpecSort == InitSort /\ [][NextSort]_vars

\* The texts of the files added and compared: as many distinct terms as the
\* elite set takes, one more, a few less (on both sides of the threshold),
\* and a short text.
SimilarTexts ==
    { 1..ELITE_TERM_COUNT, 1..(ELITE_TERM_COUNT + 1), 1..(ELITE_TERM_COUNT - 4),
      1..(ELITE_TERM_COUNT - 5), 1..10 }

\* The documents cmd_add made of these files.
SimilarDocInputs ==
    {XapianDoc([key |-> "k1", sids |-> {}, files |-> {"a.pdf"}, tags |-> {"new"},
                year |-> 0, text |-> t]) : t \in SimilarTexts}

\* cmd_similar and the duplicate check of cmd_add on a store of such documents.
InitSimilar == InitStore(SimilarDocInputs)

NextSimilar == \E h \in Handles, text \in SimilarTexts : FindSimilar(h, text)

SpecSimilar == InitSimilar /\ [][NextSimilar]_vars

\* The root that cmd_restore restores from, with or without the directory
\* of a store that was lost.  The names: the docids written plainly and
\* with a leading zero.
PlainNames == {Digit(d) : d \in Docids}

PaddedNames == {Digit(0) \o Digit(d) : d \in Docids}

PlainEntries ==
    {NoEntry, [kind |-> "file", fields |-> NoFields], [kind |-> "emptydir", fields |-> NoFields]}
        \cup {[kind |-> "docdir", fields |-> f] : f \in FieldInputs}

PaddedEntries ==
    {NoEntry} \cup {[kind |-> "docdir", fields |-> f] : f \in {g \in FieldInputs : g.key = "k1"}}

RootEntries ==
    {[n \in PlainNames \cup PaddedNames |-> IF n \in PlainNames THEN p[n] ELSE q[n]] :
        p \in [PlainNames -> PlainEntries], q \in [PaddedNames -> PaddedEntries]}

\* RestoreMode: initdb(writable=True, create=True, force=True)
RestoreMode == <<TRUE, TRUE, TRUE>>

InitRestore ==
    /\ \E e \in RootEntries, x \in BOOLEAN :
          fs = [root |-> TRUE,
                others |-> \E n \in DOMAIN e : e[n].kind # "absent",
                xapers |-> x,
                xapian |-> x,
                sources |-> SourceNames,
                entries |-> e]
    /\ disk = EmptyStore
    /\ handles = [h \in Handles |-> ClosedHandle]
    /\ ret = [op |-> "start", h |-> 0, docid |-> 0, doc |-> AbsentDoc, term |-> "",
              mode |-> NoMode, val |-> 0, err |-> "none", rep |-> FALSE]
    /\ generated = {}
    /\ persisted = {}

NextRestore ==
    \/ Open(RestoreMode)
    \/ \E h \in Handles : Restore(h)
    \/ \E h \in Handles : Close(h)

SpecRestore == InitRestore /\ [][NextRestore]_vars

\* cmd_restore over a store that holds records already, from a root where
\* a document directory may hold a file that cannot be parsed.  The records
\* the store starts with hold terms that no artifact of the root gives.
StaleFields ==
    [key |-> "k0", sids |-> {<<"isbn", "9">>}, files |-> {"old.pdf"},
     tags |-> {"old"}, year |-> 1999, text |-> {3}]

StaleEntries ==
    {NoEntry, [kind |-> "faildir", fields |-> NoFields]}
        \cup {[kind |-> "docdir", fields |-> f] : f \in FieldInputs}

StaleRootEntries ==
    {[n \in PlainNames \cup PaddedNames |-> IF n \in PlainNames THEN p[n] ELSE q[n]] :
        p \in [PlainNames -> StaleEntries], q \in [PaddedNames -> PaddedEntries]}

InitRestoreOver ==
    /\ \E e \in StaleRootEntries :
          fs = [root |-> TRUE, others |-> TRUE, xapers |-> TRUE, xapian |-> TRUE,
                sources |-> SourceNames, entries |-> e]
    /\ \E docs \in [Docids -> {AbsentDoc, XapianDoc(StaleFields)}] : disk = StoreOf(docs)
    /\ handles = [h \in Handles |-> ClosedHandle]
    /\ ret = [op |-> "start", h |-> 0, docid |-> 0, doc |-> AbsentDoc, term |-> "",
              mode |-> NoMode, val |-> 0, err |-> "none", rep |-> FALSE]
    /\ generated = {}
    /\ persisted = {d \in Docids : disk.docs[d].present}

SpecRestoreOver == InitRestoreOver /\ [][NextRestore]_vars

\* Searches by source id while source modules are added to the source path
\* (~/.xapers/sources): read-only handles opened before and after.  The
\* documents: one with the source id doi:7, one in whose text "doi:7" is
\* written.
UserSourceNames == {"doi", "bib"}

SchemaFieldInputs ==
    { [key |-> "k1", sids |-> {<<"doi", "7">>}, files |-> {}, tags |-> {},
       year |-> 2001, text |-> {1}],
      [key |-> "k2", sids |-> {<<"arxiv", "1">>}, files |-> {}, tags |-> {},
       year |-> 2010, text |-> {1, phrase_word("doi", "7")}] }

SchemaQueries ==
    { <<FilterTok("doi", "7")>>,
      <<FilterTok("bib", "k1")>>,
      <<FilterTok("foo", "bar")>>,
      <<WordTok(1), AndTok>> }

ReaderMode == <<FALSE, FALSE, FALSE>>

InitSchema ==
    /\ fs = [root |-> TRUE, others |-> TRUE, xapers |-> TRUE, xapian |-> TRUE,
            sources |-> SourceNames]
    /\ \E docs \in [Docids -> {XapianDoc(f) : f \in SchemaFieldInputs} \cup {AbsentDoc}] :
          disk = StoreOf(docs)
    /\ handles = [h \in Handles |-> ClosedHandle]
    /\ ret = [op |-> "start", h |-> 0, docid |-> 0, doc |-> AbsentDoc, term |-> "",
              mode |-> NoMode, val |-> 0, err |-> "none", rep |-> FALSE]
    /\ generated = {}
    /\ persisted = {d \in Docids : disk.docs[d].present}

\* A source module is put on the source path.
AddSource(name) ==
    /\ name \notin fs.sources
    /\ fs' = [fs EXCEPT !.sources = @ \cup {name}]
    /\ ret' = Ret("add_source", 0, 0, AbsentDoc, name, NoMode, 0, "none")
    /\ UNCHANGED <<disk, handles, generated, persisted>>

NextSchema ==
    \/ \E name \in UserSourceNames : AddSource(name)
    \/ Open(ReaderMode)
    \/ \E h \in Handles : Close(h)
    \/ \E h \in Handles, q \in SchemaQueries : Search(h, q, "relevance", None)
    \/ \E h \in Handles, q \in SchemaQueries : Count(h, q)

SpecSchema == InitSchema /\ [][NextSchema]_vars

\* cmd_add on a store that holds documents made of files: with or without
\* a query for the document to add to, with a file that is or is not similar
\* to a stored one, with and without --prompt.
AddTexts == {1..ELITE_TERM_COUNT, 1..10}

AddDocInputs ==
    {XapianDoc([key |-> "k1", sids |-> {}, files |-> {"a.pdf"}, tags |-> {"new"},
                year |-> 0, text |-> t]) : t \in AddTexts}

AddTags == {"added"}

AddBibtex ==
    {[fields |-> [NoFields EXCEPT !.key = "k9", !.year = 2020], ok |-> ok] : ok \in BOOLEAN}

AddArgs ==
    [query : {None, << <<FilterTok("tag", "new")>> >>, << <<FilterTok("key", "k9")>> >>},
     file : {None} \cup {<<t>> : t \in AddTexts},
     source : {None, << <<"arxiv", "9">> >>},
     bibtex : AddBibtex,
     tags : {AddTags},
     interactive : BOOLEAN,
     response : {"y", "n"}]

InitAdd ==
    /\ fs = [root |-> TRUE, others |-> TRUE, xapers |-> TRUE, xapian |-> TRUE,
            sources |-> SourceNames]
    /\ \E docs \in [Docids -> AddDocInputs \cup {AbsentDoc}] : disk = StoreOf(docs)
    /\ handles = [h \in Handles |-> ClosedHandle]
    /\ ret = [op |-> "start", h |-> 0, docid |-> 0, doc |-> AbsentDoc, term |-> "",
              mode |-> NoMode, val |-> 0, err |-> "none", rep |-> FALSE]
    /\ generated = {}
    /\ persisted = {d \in Docids : disk.docs[d].present}

NextAdd ==
    \/ Open(WriterMode)
    \/ \E h \in Handles, args \in AddArgs : CmdAdd(h, args)
    \/ \E h \in Handles : Close(h)

SpecAdd == InitAdd /\ [][NextAdd]_vars

\* cmd_import on an empty or a filled store: bibliography files of one or
\* two entries with distinct keys, one of which no BibtexError lets
\* through, two of which name the same source id; with and without --tags.
ImportEntries ==
    { [fields |-> [NoFields EXCEPT !.key = "k1", !.sids = {<<"arxiv", "1">>}, !.year = 2001],
       ok |-> TRUE],
      [fields |-> [NoFields EXCEPT !.key = "k2", !.sids = {<<"arxiv", "1">>}], ok |-> TRUE],
      [fields |-> [NoFields EXCEPT !.key = "k2", !.year = 2010], ok |-> FALSE],
      [fields |-> [NoFields EXCEPT !.key = "k3", !.files = {"c.pdf"}], ok |-> TRUE] }

BibFiles ==
    {b \in SUBSET ImportEntries :
        /\ b # {}
        /\ Cardinality(b) <= 2
        /\ \A e, o \in b : e.fields.key = o.fields.key => e = o}

ImportTags == {None, <<{"imp"}>>}

ImportDocInputs ==
    {XapianDoc([NoFields EXCEPT !.key = "k1", !.tags = {"new"}]),
     XapianDoc([NoFields EXCEPT !.key = "k9", !.sids = {<<"arxiv", "1">>}])}

InitImport ==
    /\ fs = [root |-> TRUE, others |-> TRUE, xapers |-> TRUE, xapian |-> TRUE,
            sources |-> SourceNames]
    /\ \E docs \in [Docids -> ImportDocInputs \cup {AbsentDoc}] : disk = StoreOf(docs)
    /\ handles = [h \in Handles |-> ClosedHandle]
    /\ ret = [op |-> "start", h |-> 0, docid |-> 0, doc |-> AbsentDoc, term |-> "",
              mode |-> NoMode, val |-> 0, err |-> "none", rep |-> FALSE]
    /\ generated = {}
    /\ persisted = {d \in Docids : disk.docs[d].present}

NextImport ==
    \/ Open(WriterMode)
    \/ \E h \in Handles, bibfile \in BibFiles, tags \in ImportTags : CmdImport(h, bibfile, tags)
    \/ \E h \in Handles : Close(h)

SpecImport == InitImport /\ [][NextImport]_vars

\* Key dispatch under the configurations of up to MaxStatements statements
\* that bind the keys a and b of the contexts search and ui to each other,
\* to a command the class has and to one it has not, and unbind them.
MaxStatements == 3

UiKeys == {"a", "b"}

ConfigStatements ==
    {BindStmt(c, k, KeyRhs(t)) : c \in {"search"}, k \in UiKeys, t \in UiKeys}
        \cup {BindStmt(c, k, ActionRhs(n)) : c \in {"search", "ui"}, k \in {"a"},
                                              n \in {"quit", "nosuch"}}
        \cup {UnbindStmt("search", k) : k \in UiKeys}

Configs == UNION {[1..n -> ConfigStatements] : n \in 0..MaxStatements}

InitKeys ==
    /\ \E c \in Configs :
          fs = [root |-> TRUE, others |-> TRUE, xapers |-> TRUE, xapian |-> TRUE,
                sources |-> SourceNames, config |-> c]
    /\ disk = EmptyStore
    /\ handles = [h \in Handles |-> ClosedHandle]
    /\ ret = [op |-> "start", h |-> 0, docid |-> 0, doc |-> AbsentDoc, term |-> "",
              mode |-> NoMode, val |-> 0, err |-> "none", rep |-> FALSE]
    /\ generated = {}
    /\ persisted = {}

NextKeys == \E key \in UiKeys, handled \in SUBSET UiKeys : Keypress(key, handled)

SpecKeys == InitKeys /\ [][NextKeys]_vars

\* ------------------------------------------------------------------ claims

LookupOps == {"doc_for_bib", "doc_for_source", "doc_for_path"}

OpenOps == {"Database", "write_db"}

\* C1: _generate_docid returns the highest docid ever given to
\* replace_document plus one (1 on a store never written), whatever was
\* deleted since: the id is above every id ever persisted.
C1_GenerateAboveEveryPersisted ==
    ret.op = "_generate_docid" =>
        /\ ret.val = SetMax(persisted) + 1
        /\ \A d \in persisted : ret.val > d

\* C1 witness: every docid up to MaxDocid was persisted, the highest one was
\* deleted again, and the id generated next is MaxDocid + 1.
C1_Witness ==
    /\ ret.op = "_generate_docid"
    /\ persisted = Docids
    /\ ~xapian_has_document(View(ret.h), MaxDocid)
    /\ ret.val = MaxDocid + 1

\* C2 as stated: every id _generate_docid returns is strictly above every id
\* it returned before, upserted or not.
C2_StrictlyIncreasing ==
    [][ret'.op = "_generate_docid" => \A g \in generated : ret'.val > g]_vars

\* C2 amended: an id returned by _generate_docid is never below an id it
\* returned before, and strictly above every earlier id that was upserted in
\* the meantime; a call repeated with nothing in between returns the same id.
C2_IncreasingPastUpserts ==
    [][ret'.op = "_generate_docid" =>
          /\ \A g \in generated :
                /\ ret'.val >= g
                /\ g \in persisted => ret'.val > g
          /\ ret'.rep => ret'.val = ret.val]_vars

\* C2 witness: an id is generated after an earlier generated id was upserted.
C2_Witness ==
    /\ ret.op = "_generate_docid"
    /\ \E g \in generated \cap persisted : ret.val > g

\* C3: no two writable handles are open together, and opening a writable
\* handle (Database() or UI.write_db) while one is open fails with
\* DatabaseLockError and changes neither the store nor the handles.
C3_SingleWriter ==
    [][/\ Cardinality(Writers(handles')) <= 1
       /\ (ret'.op \in OpenOps /\ ret'.mode[1] /\ Writers(handles) # {}) =>
             /\ ret'.err = "DatabaseLockError"
             /\ handles' = handles
             /\ disk' = disk
             /\ fs' = fs]_vars

\* C3 witness: the UI's write_db was refused while a writable handle is open.
C3_Witness ==
    /\ ret.op = "write_db"
    /\ ret.err = "DatabaseLockError"
    /\ Cardinality(Writers(handles)) = 1

\* What has been written to the store so far, committed or pending.
LatestWritten(hs, committed) ==
    IF Writers(hs) = {} THEN committed
    ELSE hs[CHOOSE w \in Writers(hs) : TRUE].view

IsReader(hs, h) == hs[h].open /\ ~hs[h].writable

\* C4 as stated: a read-only handle keeps the revision it has until its
\* reopen(), and after reopen() it sees every document a writer has upserted
\* or deleted by then.
C4_ReopenSeesWrites ==
    [][\A h \in Handles : (IsReader(handles, h) /\ IsReader(handles', h)) =>
          IF ret'.op = "reopen" /\ ret'.h = h
          THEN handles'[h].view = LatestWritten(handles, disk)
          ELSE handles'[h].view = handles[h].view]_vars

\* C4 amended: a read-only handle keeps the revision it has until its
\* reopen(), and after reopen() it sees the committed revision: the writes of
\* writers that have closed their handle, not the pending ones of an open writer.
C4_ReopenSeesCommitted ==
    [][\A h \in Handles : (IsReader(handles, h) /\ IsReader(handles', h)) =>
          IF ret'.op = "reopen" /\ ret'.h = h
          THEN handles'[h].view = disk
          ELSE handles'[h].view = handles[h].view]_vars

\* C4 witness: a read-only handle has reopened while a writable handle holds
\* an uncommitted write; the reader sees the committed revision.
C4_Witness ==
    /\ ret.op = "reopen"
    /\ IsReader(handles, ret.h)
    /\ \E w \in Writers(handles) : handles[w].view # disk
    /\ View(ret.h) = disk

\* C5: after replace_document(docid, doc) the record of docid is exactly
\* doc (its terms and its year slot, nothing of the previous record), also
\* when docid was absent, and every other record is unchanged.
C5_FullReplace ==
    [][ret'.op = "replace_document" =>
          LET h == ret'.h
              d == ret'.docid
          IN  /\ handles'[h].view.docs[d] = ret'.doc
              /\ handles'[h].view.docs[d].present
              /\ \A e \in Docids \ {d} :
                    handles'[h].view.docs[e] = handles[h].view.docs[e]]_vars

\* C5 witness: a document was replaced whose committed record holds a term
\* the new document does not hold.
C5_Witness ==
    /\ ret.op = "replace_document"
    /\ disk.docs[ret.docid].present
    /\ ~(disk.docs[ret.docid].terms \subseteq ret.doc.terms)
    /\ View(ret.h).docs[ret.docid] = ret.doc

\* C6: a replace_document repeated with the same docid and document leaves
\* what the handle sees (documents, terms, year slots, hence every lookup
\* and the next generated docid) and the committed store as the first left them.
C6_UpsertIdempotent ==
    [][(ret'.op = "replace_document" /\ ret'.rep) =>
          /\ handles'[ret'.h].view = handles[ret'.h].view
          /\ generate_docid(handles'[ret'.h].view) = generate_docid(handles[ret'.h].view)
          /\ disk' = disk]_vars

\* C6 witness: the same replace_document was applied twice in a row.
C6_Witness ==
    /\ ret.op = "replace_document"
    /\ ret.rep
    /\ View(ret.h).docs[ret.docid] = ret.doc

\* C7 as stated: delete_document(docid) raises nothing, leaves docid absent,
\* and leaves the store unchanged when docid was absent already.
C7_DeleteIdempotent ==
    [][ret'.op = "delete_document" =>
          /\ ret'.err = "none"
          /\ ~xapian_has_document(handles'[ret'.h].view, ret'.docid)
          /\ ~xapian_has_document(handles[ret'.h].view, ret'.docid) =>
                handles'[ret'.h].view = handles[ret'.h].view]_vars

\* C8: a lookup by unique term returns the document that holds the term when
\* exactly one document of the handle's revision holds it, and None (0) when
\* none holds it.
C8_UniqueLookup ==
    (ret.op \in LookupOps /\ ret.err = "none") =>
        LET H == Holders(View(ret.h), ret.term)
        IN  /\ Cardinality(H) = 1 => H = {ret.val}
            /\ H = {} => ret.val = 0

\* C8 witness: doc_for_source found the one document that was indexed with
\* the source id.
C8_Witness ==
    /\ ret.op = "doc_for_source"
    /\ ret.val \in Docids
    /\ Cardinality(Holders(View(ret.h), ret.term)) = 1
    /\ \E f \in FieldInputs : \E s \in f.sids :
          /\ View(ret.h).docs[ret.val] = XapianDoc(f)
          /\ ret.term = doc_for_source_term(s)

\* C9 as stated: a lookup by a term that several documents hold reports the
\* violation instead of returning one of them.
C9_DuplicateReported ==
    (ret.op \in LookupOps /\ Cardinality(Holders(View(ret.h), ret.term)) > 1) =>
        ret.err # "none"

\* C10: Database() classifies the root before it opens Xapian.  Without
\* create: a missing root is DatabaseUninitializedError, a root without
\* .xapers DatabaseInitializationError.  With create: a non-empty root
\* without .xapers is DatabaseInitializationError unless force is set;
\* otherwise .xapers is created and the open succeeds.  A failed open
\* creates nothing.
C10_OpenClassification ==
    [][ret'.op \in OpenOps =>
          LET create == ret'.mode[2]
              force == ret'.mode[3]
          IN  /\ (~create /\ ~fs.root) => ret'.err = "DatabaseUninitializedError"
              /\ (~create /\ fs.root /\ ~fs.xapers) =>
                    ret'.err = "DatabaseInitializationError"
              /\ (create /\ fs.root /\ fs.others /\ ~fs.xapers /\ ~force) =>
                    ret'.err = "DatabaseInitializationError"
              /\ (create /\ ~fs.xapers /\ (~fs.root \/ ~fs.others \/ force)) =>
                    /\ ret'.err = "none"
                    /\ fs'.root /\ fs'.xapers /\ fs'.xapian
                    /\ handles'[ret'.h].open
              /\ ret'.err # "none" =>
                    fs' = fs /\ disk' = disk /\ handles' = handles]_vars

\* C10 witness: create without force was refused on a non-empty root that
\* holds no store, and nothing was created.
C10_Witness ==
    /\ ret.op = "Database"
    /\ ret.mode = <<TRUE, TRUE, FALSE>>
    /\ ret.err = "DatabaseInitializationError"
    /\ fs.root /\ fs.others /\ ~fs.xapers

\* The documents a result lists.
Listed(result) == {result[i] : i \in 1..Len(result)}

IsUnlimitedSearch == ret.op = "search" /\ ~truthy(ret.mode[2])

\* C11: count(Q) is the number of documents search(Q, limit=0) returns, on
\* the same revision, for every query asked and in either sort mode.
C11_CountIsSearchLength ==
    /\ ret.op = "count" =>
          \A sort \in SortModes :
             \A r \in search(handles[ret.h], ret.term, sort, <<0>>) : ret.val = Len(r)
    /\ (ret.op = "search" /\ ret.mode[2] = <<0>>) =>
          count(handles[ret.h], ret.term) = {Len(ret.val)}

\* C11 witness: a count of two or more, which a search limited to one
\* document would not list.
C11_Witness ==
    /\ ret.op = "count"
    /\ ret.term \in TagQueries
    /\ ret.val >= 2
    /\ ret.val = Cardinality(Matches(View(ret.h), parse_query(handles[ret.h].query_parser, ret.term)))

\* C12: a query of tag: terms lists exactly the documents that carry every
\* tag of the query.
C12_TagsConjunctive ==
    (IsUnlimitedSearch /\ ret.term \in TagQueries) =>
        Listed(ret.val) =
            {d \in Present(View(ret.h)) :
                \A i \in 1..Len(ret.term) :
                   (BOOLEAN_PREFIX_MULTI.tag \o ret.term[i].value)
                       \in View(ret.h).docs[d].terms}

\* C12 witness: tag:a tag:c was asked of a store holding a document tagged
\* {a, b} and one tagged {a, c}; the second alone is listed.
C12_Witness ==
    /\ IsUnlimitedSearch
    /\ ret.term = <<FilterTok("tag", "a"), FilterTok("tag", "c")>>
    /\ Len(ret.val) = 1
    /\ \E d \in Present(View(ret.h)) \ Listed(ret.val) :
          {"Ka", "Kb"} \subseteq View(ret.h).docs[d].terms

\* The prefix a field of the query grammar stands for.
QueryPrefix(field) ==
    IF field \in handles[ret.h].query_parser THEN make_source_prefix(field) ELSE find_prefix(field)

\* C13: the terms of one exclusive field (id, key, source, year, a source
\* name) are alternatives, the fields and the free text are all required: a
\* query of such terms lists exactly the documents that hold every word and,
\* for every field of the query, at least one of its terms.
C13_ExclusiveDisjunctive ==
    (IsUnlimitedSearch /\ ret.term \in ExclusiveQueries) =>
        LET toks == {ret.term[i] : i \in 1..Len(ret.term)}
            filters == {k \in toks : k.t = "filter"}
            words == {k.w : k \in {j \in toks : j.t = "word"}}
        IN  Listed(ret.val) =
               {d \in Present(View(ret.h)) :
                   /\ words \subseteq View(ret.h).docs[d].text
                   /\ \A f \in {k.field : k \in filters} :
                         \E k \in filters :
                            /\ k.field = f
                            /\ (QueryPrefix(f) \o k.value) \in View(ret.h).docs[d].terms}

\* C13 witness: source:arxiv source:isbn listed a document of source arxiv
\* and a document of source isbn, neither having both sources.
C13_Witness ==
    /\ IsUnlimitedSearch
    /\ ret.term = <<FilterTok("source", "arxiv"), FilterTok("source", "isbn")>>
    /\ \E d, e \in Listed(ret.val) :
          /\ "XSOURCE|arxiv" \in View(ret.h).docs[d].terms
          /\ "XSOURCE|isbn" \notin View(ret.h).docs[d].terms
          /\ "XSOURCE|isbn" \in View(ret.h).docs[e].terms
          /\ "XSOURCE|arxiv" \notin View(ret.h).docs[e].terms

\* C14: a year range lists exactly the documents whose year lies between
\* the bounds, both included, an omitted bound not bounding; a document
\* without a year is in no range.
C14_YearRange ==
    (IsUnlimitedSearch /\ ret.term \in RangeQueries) =>
        Listed(ret.val) =
            {d \in Present(View(ret.h)) :
                LET y == View(ret.h).docs[d].year
                IN  /\ y # 0
                    /\ ret.term[1].lo = 0 \/ ret.term[1].lo <= y
                    /\ ret.term[1].hi = 0 \/ y <= ret.term[1].hi}

\* C14 witness: year:2000..2010 was asked of a store holding a document of
\* 2005 and one of 1999 or 2011; the document of 2005 alone is listed.
C14_Witness ==
    /\ IsUnlimitedSearch
    /\ ret.term = <<RangeTok("year", 2000, 2010)>>
    /\ Len(ret.val) = 1
    /\ View(ret.h).docs[ret.val[1]].year = 2005
    /\ \E d \in Present(View(ret.h)) : View(ret.h).docs[d].year \in {1999, 2011}

\* C15 as stated: a search for "*" or for "+" lists every document of the
\* store, whether the query comes from the command line (cmd_search) or
\* goes to Database.search as it is.
C15_StarAndPlusMatchAll ==
    (/\ ret.op \in {"search", "cmd_search"}
     /\ ret.term \in AllQueries
     /\ ~truthy(ret.mode[2])) =>
        Listed(ret.val) = Present(View(ret.h))

\* The year and the relevance weight of the i-th document of the result.
YearAt(i) == View(ret.h).docs[ret.val[i]].year

WeightAt(i) == weight(View(ret.h).docs[ret.val[i]], parse_query(handles[ret.h].query_parser, ret.term))

IsYearSearch == ret.op = "search" /\ ret.mode[1] = "year"

\* C16 as stated: in sort mode year the documents that have a year are
\* listed by year ascending, and by relevance descending within one year.
C16_YearAscending ==
    IsYearSearch =>
        \A i, j \in 1..Len(ret.val) :
           (i < j /\ YearAt(i) # 0 /\ YearAt(j) # 0) =>
               /\ YearAt(i) <= YearAt(j)
               /\ YearAt(i) = YearAt(j) => WeightAt(i) >= WeightAt(j)

\* C16 amended: in sort mode year the documents are listed by year
\* descending (the latest year first, documents without a year last), and by
\* relevance descending within one year.
C16_YearDescending ==
    IsYearSearch =>
        \A i, j \in 1..Len(ret.val) :
           i < j =>
               /\ YearAt(i) >= YearAt(j)
               /\ YearAt(i) = YearAt(j) => WeightAt(i) >= WeightAt(j)

\* C16 witness: a search in sort mode year listed two documents of equal
\* relevance, of the years 2010 and 2001, in this order.
C16_Witness ==
    /\ IsYearSearch
    /\ Len(ret.val) = 2
    /\ YearAt(1) = 2010 /\ YearAt(2) = 2001
    /\ WeightAt(1) = WeightAt(2)

\* C17: in both sort modes two documents equal in year and relevance are
\* listed the higher docid first, and the result is the only one the store
\* and the query allow.
C17_DocidDescending ==
    ret.op = "search" =>
        /\ \A i, j \in 1..Len(ret.val) :
              (i < j /\ YearAt(i) = YearAt(j) /\ WeightAt(i) = WeightAt(j)) =>
                  ret.val[i] > ret.val[j]
        /\ search(handles[ret.h], ret.term, ret.mode[1], ret.mode[2]) = {ret.val}

\* C17 witness: a search by a word listed two documents of the same year and
\* the same weight, docid 2 before docid 1.
C17_Witness ==
    /\ ret.op = "search"
    /\ ret.term = <<WordTok(1)>>
    /\ Len(ret.val) = 2
    /\ YearAt(1) = YearAt(2) /\ WeightAt(1) = WeightAt(2)
    /\ ret.val = <<2, 1>>

\* C18: find_similar(text) yields exactly the documents whose score -- the
\* elite terms the document holds, divided by 42 -- is above 0.9, each with
\* that score, in descending order of the score: the stop at the first score
\* that does not pass leaves no passing document out.
C18_SimilarAboveThreshold ==
    ret.op = "find_similar" =>
        \E elite \in elite_sets(View(ret.h), ret.term, ELITE_TERM_COUNT) :
           LET wt(d) == Cardinality(elite \cap View(ret.h).docs[d].text)
           IN  /\ {ret.val[i].did : i \in 1..Len(ret.val)} =
                     {d \in Present(View(ret.h)) : 10 * wt(d) > 9 * ELITE_TERM_COUNT}
               /\ \A i \in 1..Len(ret.val) :
                     ret.val[i].score = <<wt(ret.val[i].did), ELITE_TERM_COUNT>>
               /\ \A i, j \in 1..Len(ret.val) :
                     i < j => ret.val[i].score[1] >= ret.val[j].score[1]

\* C18 witness: of a document holding 38 of the 42 elite terms and one
\* holding 37, the first alone was yielded, with score 38/42.
C18_Witness ==
    /\ ret.op = "find_similar"
    /\ ret.term = 1..ELITE_TERM_COUNT
    /\ Len(ret.val) = 1
    /\ ret.val[1].score = <<ELITE_TERM_COUNT - 4, ELITE_TERM_COUNT>>
    /\ \E d \in Present(View(ret.h)) :
          View(ret.h).docs[d].text = 1..(ELITE_TERM_COUNT - 5)

\* C19 as stated: find_similar on the text of a document of the store
\* yields that document first, with score 42/42.
C19_ExactTextScoresOne ==
    ret.op = "find_similar" =>
        \A d \in Present(View(ret.h)) :
           View(ret.h).docs[d].text = ret.term =>
               /\ ret.val # <<>>
               /\ ret.val[1] = [did |-> d, score |-> <<ELITE_TERM_COUNT, ELITE_TERM_COUNT>>]

\* C20 as stated: restore syncs the directories in ascending order of the
\* docid their name stands for: a name of a lower docid is never synced
\* after a name of a higher one.
C20_RestoreNumericOrder ==
    ret.op = "restore" =>
        \A i, j \in 1..Len(ret.val) :
           int(ret.val[i]) < int(ret.val[j]) => i < j

\* C20 amended: restore syncs the document directories of the root -- all
\* of them, each once -- in ascending string order of their names, which is
\* the order of the docids between names of one length.
C20_RestoreNameOrder ==
    ret.op = "restore" =>
        /\ {ret.val[i] : i \in 1..Len(ret.val)} =
              {n \in DOMAIN fs.entries : fs.entries[n].kind = "docdir"}
        /\ \A i, j \in 1..Len(ret.val) :
              i < j =>
                 /\ bytes_lt(ret.val[i], ret.val[j])
                 /\ Len(ret.val[i]) = Len(ret.val[j]) => int(ret.val[i]) < int(ret.val[j])

\* C20 witness: the root holds the document directories "02" and "1";
\* restore synced "02" (docid 2) before "1" (docid 1).
C20_Witness ==
    /\ ret.op = "restore"
    /\ \E i, j \in 1..Len(ret.val) :
          /\ i < j
          /\ ret.val[i] = Digit(0) \o Digit(2)
          /\ ret.val[j] = Digit(1)
    /\ xapian_has_document(View(ret.h), 1) /\ xapian_has_document(View(ret.h), 2)

\* The variables with the operation of the last call first: two records of
\* calls are compared field by field only when they are calls of the same
\* operation.
stepvars == <<ret.op, vars>>

\* The terms that the artifacts of the synced directories of docid d give.
ArtifactTerms(d) ==
    UNION {IndexTerms(fs.entries[ret.val[i]].fields) :
              i \in {j \in 1..Len(ret.val) : int(ret.val[j]) = d}}

\* C21 as stated: after restore the record of every docid it synced holds
\* only what the artifacts of its directory give: no tag, source id, key or
\* file term of the record the store held before is left in it.
C21_RestoreOverrides ==
    ret.op = "restore" =>
        \A i \in 1..Len(ret.val) :
           View(ret.h).docs[int(ret.val[i])].terms \subseteq ArtifactTerms(int(ret.val[i]))

C23_RestoreContinues ==
    (ret.op = "restore" /\ ret.err # "none") =>
        \A n \in DOMAIN fs.entries :
           fs.entries[n].kind = "docdir" => \E i \in 1..Len(ret.val) : ret.val[i] = n

\* The docids of the directories a restore synced.
SyncedDocids(log) == {int(log[i]) : i \in 1..Len(log)}

\* A step of a restore that failed.
FailedRestoreStep == ret'.op = "restore" /\ ret'.err # "none"

IsFieldSearch(r) ==
    /\ r.op = "search" /\ r.err = "none"
    /\ Len(r.term) = 1 /\ r.term[1].t = "filter"

\* C25: the source names a handle's query parser knows are the source
\* catalog as it was when the handle was opened and stay so while the handle
\* is open; <name>:<id> is a filter on the source's terms through a handle
\* that knows the name and free text through one that does not.
C25_SchemaFixedAtOpen ==
    [][\A h \in Handles :
          /\ (~handles[h].open /\ handles'[h].open) =>
                handles'[h].query_parser = fs.sources
          /\ (handles[h].open /\ handles'[h].open) =>
                handles'[h].query_parser = handles[h].query_parser
          /\ (IsFieldSearch(ret') /\ ret'.h = h
                /\ ret'.term[1].field \in SourceNames \cup UserSourceNames) =>
                Listed(ret'.val) =
                    IF ret'.term[1].field \in handles[h].query_parser
                    THEN {d \in Present(View(h)) :
                            make_source_prefix(ret'.term[1].field) \o ret'.term[1].value
                                \in View(h).docs[d].terms}
                    ELSE {d \in Present(View(h)) :
                            phrase_word(ret'.term[1].field, ret'.term[1].value)
                                \in View(h).docs[d].text}]_stepvars

\* C25 witness: doi was added to the catalog after the handle of the search
\* was opened; the search for doi:7 through it does not list the document of
\* that source id, which a handle opened later knows the name for.
C25_Witness ==
    /\ IsFieldSearch(ret) /\ ret.term = <<FilterTok("doi", "7")>>
    /\ "doi" \in fs.sources
    /\ "doi" \notin handles[ret.h].query_parser
    /\ \E g \in OpenHandles : "doi" \in handles[g].query_parser
    /\ \E d \in Present(View(ret.h)) \ Listed(ret.val) :
          "XDOI|7" \in View(ret.h).docs[d].terms

\* A query string that ends or begins with the operator AND.
DanglingOperator(q) == Len(q) >= 1 /\ (q[1] = AndTok \/ q[Len(q)] = AndTok)

\* A field that neither the tables of Database nor the handle's source
\* names know.
UnknownField(h, field) ==
    field \notin handles[h].query_parser /\ find_prefix(field) = NoPrefix

\* C26: search and count change nothing in the store; on a malformed query
\* string they raise the parser's error to the caller; a field:value term
\* with an unknown field raises nothing and is searched as free text: the
\* documents listed or counted are those whose text holds the phrase.
C26_MalformedRaisesUnknownFieldDoesNot ==
    [][ret'.op \in {"search", "count"} =>
          /\ handles' = handles /\ disk' = disk /\ fs' = fs
          /\ DanglingOperator(ret'.term) => ret'.err = "QueryParserError"
          /\ (Len(ret'.term) = 1 /\ ret'.term[1].t = "filter"
                /\ UnknownField(ret'.h, ret'.term[1].field)) =>
               /\ ret'.err = "none"
               /\ LET found == {d \in Present(View(ret'.h)) :
                                  phrase_word(ret'.term[1].field, ret'.term[1].value)
                                      \in View(ret'.h).docs[d].text}
                  IN  IF ret'.op = "search" THEN Listed(ret'.val) = found
                      ELSE ret'.val = Cardinality(found)]_stepvars

\* C26 witness: a search of "1 AND" on a store with documents raised
\* QueryParserError.
C26_Witness ==
    /\ ret.op = "search" /\ ret.err = "QueryParserError"
    /\ ret.term = <<WordTok(1), AndTok>>
    /\ Present(View(ret.h)) # {}

\* C26, the other case: a count of doi:7 through a handle that does not know
\* doi counted the document in whose text doi:7 is written.
C26_UnknownFieldWitness ==
    /\ ret.op = "count" /\ ret.err = "none"
    /\ ret.term = <<FilterTok("doi", "7")>>
    /\ UnknownField(ret.h, "doi")
    /\ ret.val >= 1

\* The field names of the tables of Database.
BuiltinFields ==
    DOMAIN BOOLEAN_PREFIX \cup DOMAIN BOOLEAN_PREFIX_MULTI
        \cup DOMAIN BOOLEAN_PREFIX_INTERNAL \cup DOMAIN PROBABILISTIC_PREFIX

\* C27 as stated: the prefix of a registered source name is the prefix of no
\* other source name and of no field of the tables of Database, so a search
\* <name>:<id> lists only documents that hold a source id of that source.
C27_NoPrefixCollision ==
    /\ \A h \in OpenHandles : \A s \in handles[h].query_parser :
          /\ \A n \in BuiltinFields : find_prefix(n) # make_source_prefix(s)
          /\ \A n \in handles[h].query_parser \ {s} :
                make_source_prefix(n) # make_source_prefix(s)
    /\ (IsFieldSearch(ret) /\ ret.term[1].field \in handles[ret.h].query_parser) =>
          \A d \in Listed(ret.val) :
             find_prefix("source") \o ret.term[1].field \in View(ret.h).docs[d].terms

\* C28 as stated: the document cmd_add syncs is the document selected at the
\* start of the command, and the command changes the record of no other
\* docid, also after similar documents were listed and the user went on.
C28_AddTargetsSelected ==
    [][(ret'.op = "cmd_add" /\ ret'.err = "none") =>
          /\ ret'.docid = ret'.val
          /\ \A d \in Docids \ {ret'.val} :
                handles'[ret'.h].view.docs[d] = handles[ret'.h].view.docs[d]]_stepvars

\* The documents of the store that hold a bibliography key or one of the
\* source ids of an entry.
EntryHolders(db, entry) ==
    Holders(db, doc_for_bib_term(entry.fields.key))
        \cup UNION {Holders(db, doc_for_source_term(s)) : s \in entry.fields.sids}

ImportStep == ret'.op = "cmd_import"

\* What C29 says of one cmd_import, from the store before to the store
\* after: every entry that raised no BibtexError was synced, the entries
\* that raised one are in errors, no document holds their key that did not
\* before and a file of such entries alone leaves the store as it was;
\* documents are created at most for the entries no persisted document held
\* the key or a source id of; and the same file imported a second time
\* leaves the number of documents as it is.
ImportUpdates ==
    LET before == ret'.val.before
        after == handles'[ret'.h].view
        file == ret'.val.file
        entries == {file[i] : i \in DOMAIN file}
        keys(log) == {log[i] : i \in DOMAIN log}
        fresh == {e \in entries : e.ok /\ EntryHolders(before, e) = {}}
    IN  /\ \A e \in entries :
              IF e.ok
              THEN e.fields.key \in keys(ret'.val.imported)
              ELSE /\ e.fields.key \in keys(ret'.val.errors)
                   /\ Holders(after, doc_for_bib_term(e.fields.key))
                         = Holders(before, doc_for_bib_term(e.fields.key))
        /\ (\A e \in entries : ~e.ok) => after = before
        /\ Cardinality(Present(after)) <= Cardinality(Present(before)) + Cardinality(fresh)
        /\ (ret.op = "cmd_import" /\ ret.h = ret'.h /\ ret.val.file = file
               /\ ret.mode = ret'.mode)
              => Cardinality(Present(after)) = Cardinality(Present(before))

\* C29: cmd_import updates instead of duplicating: an entry whose key or
\* source id a persisted document has is synced to a persisted document and
\* no document is created for it, a second import of the same file leaves
\* the number of documents, and an entry with a BibtexError changes nothing
\* and does not stop the entries after it.
C29_ImportUpdates == [][ImportStep => ImportUpdates]_stepvars

\* C30: key dispatch terminates: under every binding table that bind and
\* unbind statements produce, tables that bind a key to a key bound back to
\* it among them, a call of keypress returns after finitely many
\* re-dispatches.
C30_KeypressReturns ==
    ret.op = "keypress" => ret.err # "RecursionError"

====
